---- MODULE Spec2Model ----
(***************************************************************************)
(* A model of the timeline curator extension: the model manager and the    *)
(* offscreen inference host (scripts/modelManager.js, scripts/offscreen.js)*)
(* and the background orchestrator (scripts/background.js), which talk     *)
(* only through asynchronous messages.                                     *)
(*                                                                         *)
(* Strings are sequences of one-character strings, so that toLowerCase,    *)
(* includes and split are computed and not assumed.  An error message is   *)
(* the set of the substrings the code inspects that it contains.           *)
(***************************************************************************)
EXTENDS Integers, Sequences, FiniteSets, TLC

(***************************************************************************)
(* Bounds of the model.                                                    *)
(***************************************************************************)
\* load attempts one run may start
MaxAttempts == 2
\* requests the environment addresses to the inference host (SpecLoad)
MaxRequests == 3
\* invocations of the background listener that may be suspended at once
MaxProcs == 2
\* START_CURATION, STOP_CURATION and RETRY_AI_LOAD messages of one run
MaxCommands == 2
\* EVALUATE_TWEET messages of one run
MaxEvals == 2
\* EVALUATE_TWEET messages under way at once
MaxInFlight == 2
\* decisions logged in one run of SpecLog
MaxLogEvals == 3
\* free entries of the log SpecLog may start from
LogHeadroom == 1
\* entries beyond the capacity a stored log may start with (SpecLogStore)
LogExcess == 1

(***************************************************************************)
(* Strings.                                                                *)
(***************************************************************************)
UpperChars == <<"A","B","C","D","E","F","G","H","I","J","K","L","M",
                "N","O","P","Q","R","S","T","U","V","W","X","Y","Z">>
LowerChars == <<"a","b","c","d","e","f","g","h","i","j","k","l","m",
                "n","o","p","q","r","s","t","u","v","w","x","y","z">>

\* String.prototype.toLowerCase, one character
LowerChar(c) ==
    IF \E i \in 1..26 : UpperChars[i] = c
    THEN LowerChars[CHOOSE i \in 1..26 : UpperChars[i] = c]
    ELSE c

\* String.prototype.toLowerCase
ToLowerCase(s) == [i \in 1..Len(s) |-> LowerChar(s[i])]

\* String.prototype.startsWith
StartsWith(s, k) == Len(k) <= Len(s) /\ SubSeq(s, 1, Len(k)) = k

\* String.prototype.includes
Includes(s, k) ==
    \E i \in 0..(Len(s) - Len(k)) : SubSeq(s, i + 1, i + Len(k)) = k

\* Array.prototype.some(k => lower.includes(k))
SomeIncluded(s, list) == \E i \in 1..Len(list) : Includes(s, list[i])

(***************************************************************************)
(* Error messages: the inspected substrings a message contains.            *)
(***************************************************************************)
\* err.message.includes(k)
MsgIncludes(msg, k) == k \in msg

\* fetch() rejections and the non-2xx error retryFetch raises itself
FetchErrors == { {"fetch"}, {"HTTP"}, {"timeout"} }
\* import() of the inference library failing
ImportErrors == { {}, {"fetch"}, {"HTTP"} }
\* pipeline() rejecting: a retryFetch failure inside it, or the runtime
PipelineErrors == { {"fetch", "HTTP"}, {} }

(***************************************************************************)
(* The embedding provider, an external library: a fixed table from text to *)
(* a small integer vector.                                                 *)
(***************************************************************************)
Embed(t) ==
    LET l == ToLowerCase(t) IN
    IF Includes(l, <<"a", "i">>) THEN <<3, 1>>
    ELSE IF Includes(l, <<"m", "u", "s", "i", "c">>) THEN <<1, 3>>
    ELSE IF l = <<>> THEN <<0, 0>>
    ELSE <<-1, 2>>

VARIABLES
    \* scripts/modelManager.js: one instance per execution context
    modelReady,         \* [context -> BOOLEAN]
    loadPromise,        \* _loadPromise: 0 (null) or the attempt whose promise it is
    attempts,           \* the load attempts started so far, in order
    \* scripts/offscreen.js
    classifier,         \* 0 (undefined) or the attempt that produced the pipeline
    interestEmbeddings, \* sequence of [t, emb]
    spamList,
    threshold,          \* in hundredths
    waiters,            \* handlers suspended in `await ensureModel()`
    hostInbox,          \* messages on their way to the offscreen listener
    hostReplies,        \* sendResponse calls of the offscreen listener
    bgInbox,            \* messages of the model manager on their way to the background
    requests,           \* requests the environment has sent to the host (SpecLoad)
    \* scripts/background.js
    isRunning,
    aiReady,
    cachedInterests,
    store,              \* chrome.storage.local
    alarm,              \* the keep-alive alarm is armed
    retryTimers,        \* pending setTimeout callbacks of AI_LOAD_FAILED
    procs,              \* the invocations of the message listener, by slot
    uiStatus,           \* the last STATUS_UPDATE broadcast
    loadFailures,       \* AI_LOAD_FAILED messages handled so far
    clock,              \* Date.now(), a logical clock
    commands,           \* messages of the popup and of other senders received so far
    \* scripts/content.js, in the feed tab
    feedTab,            \* [script, loop, hidden, url, observing, directive]
    evalInbox,          \* EVALUATE_TWEET messages on their way to the background
    emitted             \* EVALUATE_TWEET messages sent so far

hostVars == <<modelReady, loadPromise, attempts, classifier, interestEmbeddings,
              spamList, threshold, waiters, hostInbox, hostReplies, bgInbox, requests>>

bgVars == <<isRunning, aiReady, cachedInterests, store, alarm, retryTimers, procs,
            uiStatus, loadFailures, clock, commands>>

tabVars == <<feedTab, evalInbox, emitted>>

vars == <<modelReady, loadPromise, attempts, classifier, interestEmbeddings,
          spamList, threshold, waiters, hostInbox, hostReplies, bgInbox, requests,
          isRunning, aiReady, cachedInterests, store, alarm, retryTimers, procs,
          uiStatus, loadFailures, clock, commands, feedTab, evalInbox, emitted>>

Contexts == {"background", "offscreen"}

(***************************************************************************)
(* scripts/modelManager.js                                                 *)
(***************************************************************************)
\* retryFetch(url, options, maxRetries = 3)
maxRetries == 3

\* export const isModelReady = () => modelReady, in the importing context
isModelReady(ctx) == modelReady[ctx]

\* the attempt as getMiniLMPipeline leaves it at its first await: progress 5
\* and 10 are reported and the first probe of retryFetch is under way
NewAttempt ==
    [phase |-> "TestingNetwork", fetchTry |-> 1, backoff |-> 0, progress |-> <<5, 10>>,
     pipeline |-> "none", timer |-> "none", notified |-> <<>>]

Pending(a) == attempts[a].phase \in {"TestingNetwork", "ImportingProvider", "Downloading"}

InFlight == {a \in 1..Len(attempts) : Pending(a)}

\* if (_loadPromise) return _loadPromise;
MemoHit_never == FALSE

MemoHit == loadPromise # 0

\* _loadPromise = null; // Reset so it can be retried
LoadPromiseAfterFailure_kept == loadPromise

LoadPromiseAfterFailure == 0

\* the catch block of getMiniLMPipeline: the payload of AI_LOAD_FAILED
ErrorMessage(err) ==
    IF MsgIncludes(err, "fetch") THEN {"Network error:", "Network"}
    ELSE IF MsgIncludes(err, "timeout") THEN {"Download timeout:", "timeout"}
    ELSE IF MsgIncludes(err, "HTTP") THEN {"Server error:"} \cup err
    ELSE err

(***************************************************************************)
(* scripts/offscreen.js: classification by similarity (tier 1)             *)
(***************************************************************************)
DigitChars == <<"0", "1", "2", "3", "4", "5", "6", "7", "8", "9">>

\* a result that carries no classification (the answer to PRELOAD_MODEL)
NoResult == [isUninteresting |-> FALSE, reason |-> [kind |-> "", arg |-> <<>>]]

Dot(a, b) == a[1] * b[1] + a[2] * b[2]

\* cosine(a, b) = dot / (sqrt(na) * sqrt(nb)), kept exact as dot / sqrt(nn);
\* nn = 0 is the NaN of 0 / 0
cosine(a, b) == [dot |-> Dot(a, b), nn |-> Dot(a, a) * Dot(b, b)]

IsNaN(x) == x.nn = 0

\* x > y on two similarities (false when either is NaN)
SimGT(x, y) ==
    /\ ~IsNaN(x) /\ ~IsNaN(y)
    /\ IF x.dot >= 0 /\ y.dot < 0 THEN TRUE
       ELSE IF x.dot < 0 /\ y.dot >= 0 THEN FALSE
       ELSE IF x.dot >= 0 THEN x.dot * x.dot * y.nn > y.dot * y.dot * x.nn
       ELSE x.dot * x.dot * y.nn < y.dot * y.dot * x.nn

\* x < num / den for a non-NaN similarity x and num > 0, den > 0
SimLT_orEqual(x, num, den) ==
    x.dot < 0 \/ x.dot * x.dot * den * den <= num * num * x.nn

SimLT(x, num, den) ==
    x.dot < 0 \/ x.dot * x.dot * den * den < num * num * x.nn

\* let maxSim = -1; for (const i of interestEmbeddings) if (sim > maxSim) maxSim = sim
RECURSIVE MaxSimFrom(_, _, _, _)
MaxSimFrom(emb, embs, i, maxSim) ==
    IF i > Len(embs) THEN maxSim
    ELSE LET sim == cosine(emb, embs[i].emb) IN
         MaxSimFrom(emb, embs, i + 1, IF SimGT(sim, maxSim) THEN sim ELSE maxSim)

MinusOne == [dot |-> -1, nn |-> 1]

\* Number.prototype.toFixed(2) of a similarity: the sign, then the magnitude
\* rounded to the nearest hundredth, the larger one on a tie
ToFixed2(x) ==
    LET mag == [dot |-> IF x.dot < 0 THEN -x.dot ELSE x.dot, nn |-> x.nn]
        q == CHOOSE n \in 0..100 :
                /\ SimLT(mag, 2 * n + 1, 200)
                /\ \A k \in 0..(n - 1) : ~SimLT(mag, 2 * k + 1, 200)
    IN  (IF x.dot < 0 THEN <<"-">> ELSE <<>>) \o
        <<DigitChars[(q \div 100) + 1], ".",
          DigitChars[((q % 100) \div 10) + 1], DigitChars[(q % 10) + 1]>>

\* const classify = (tweet) => ...
classify_embedsAlways(tweet) ==
    LET lower == ToLowerCase(tweet) IN
    IF SomeIncluded(lower, spamList)
    THEN [isUninteresting |-> TRUE, reason |-> [kind |-> "Spam", arg |-> <<>>]]
    ELSE LET maxSim == MaxSimFrom(Embed(tweet), interestEmbeddings, 1, MinusOne) IN
         [isUninteresting |-> SimLT(maxSim, threshold, 100),
          reason |-> [kind |-> "sim=", arg |-> ToFixed2(maxSim)]]

classify(tweet) ==
    LET lower == ToLowerCase(tweet) IN
    IF SomeIncluded(lower, spamList)
    THEN [isUninteresting |-> TRUE, reason |-> [kind |-> "Spam", arg |-> <<>>]]
    ELSE IF Len(interestEmbeddings) = 0
    THEN [isUninteresting |-> FALSE, reason |-> [kind |-> "No interests", arg |-> <<>>]]
    ELSE LET maxSim == MaxSimFrom(Embed(tweet), interestEmbeddings, 1, MinusOne) IN
         [isUninteresting |-> SimLT(maxSim, threshold, 100),
          reason |-> [kind |-> "sim=", arg |-> ToFixed2(maxSim)]]

\* const recalcEmbeddings = (interests) => ...
recalcEmbeddings_unguarded(interests) ==
    [i \in 1..Len(interests) |-> [t |-> interests[i], emb |-> Embed(interests[i])]]

recalcEmbeddings(interests) ==
    IF classifier = 0 THEN interestEmbeddings
    ELSE [i \in 1..Len(interests) |-> [t |-> interests[i], emb |-> Embed(interests[i])]]

\* the attempt a fails with error err: AI_LOAD_FAILED is sent, the memo is reset
\* and the promise rejects, so every handler awaiting it resumes in its catch:
\* PRELOAD_MODEL answers { success: false }, CLASSIFY has no catch and answers nothing
FailAttempt(a, att, err) ==
    /\ attempts' = [attempts EXCEPT ![a] =
            [att EXCEPT !.phase = "Failed",
                        !.notified = Append(@, "AI_LOAD_FAILED")]]
    /\ bgInbox' = Append(bgInbox, [type |-> "AI_LOAD_FAILED", payload |-> ErrorMessage(err)])
    /\ loadPromise' = LoadPromiseAfterFailure
    /\ waiters' = SelectSeq(waiters, LAMBDA w : w.attempt # a)
    /\ hostReplies' = hostReplies \cup
            {[type |-> w.type, id |-> w.id, ok |-> FALSE, result |-> NoResult] :
                w \in {waiters[i] : i \in {j \in 1..Len(waiters) :
                        /\ waiters[j].attempt = a /\ waiters[j].awaited
                        /\ waiters[j].type = "PRELOAD_MODEL"}}}
    /\ UNCHANGED <<modelReady, classifier, interestEmbeddings, spamList, threshold>>

\* the attempt a succeeds: progress 100, modelReady = true, AI_READY, and the
\* promise resolves, so every handler awaiting it sets the classifier and answers
SucceedAttempt(a, att) ==
    /\ attempts' = [attempts EXCEPT ![a] =
            [att EXCEPT !.phase = "Ready",
                        !.progress = Append(@, 100),
                        !.notified = Append(@, "AI_READY")]]
    /\ modelReady' = [modelReady EXCEPT !["offscreen"] = TRUE]
    /\ bgInbox' = Append(bgInbox, [type |-> "AI_READY", payload |-> {}])
    /\ classifier' = IF \E i \in 1..Len(waiters) : waiters[i].attempt = a
                     THEN a ELSE classifier
    /\ waiters' = SelectSeq(waiters, LAMBDA w : w.attempt # a)
    /\ hostReplies' = hostReplies \cup
            {[type |-> w.type, id |-> w.id, ok |-> TRUE,
              result |-> IF w.type = "CLASSIFY" THEN classify(w.text) ELSE NoResult] :
                w \in {waiters[i] : i \in {j \in 1..Len(waiters) :
                        waiters[j].attempt = a /\ waiters[j].awaited}}}
    /\ UNCHANGED <<loadPromise, interestEmbeddings, spamList, threshold>>

\* const delay = Math.pow(2, attempt - 1) * 1000, the wait in ms after the
\* failed attempt of that number
BackoffDelay_fixed(attempt) == 1000

BackoffDelay(attempt) == (2 ^ (attempt - 1)) * 1000

\* retryFetch: the probe answers 2xx and retryFetch returns, its attempt counter
\* with it; the library import starts (progress 15)
Fetch_Ok(a) ==
    /\ a \in 1..Len(attempts)
    /\ attempts[a].phase = "TestingNetwork"
    /\ attempts' = [attempts EXCEPT ![a].phase = "ImportingProvider",
                                    ![a].fetchTry = 0,
                                    ![a].backoff = 0,
                                    ![a].progress = Append(@, 15)]
    /\ UNCHANGED <<modelReady, loadPromise, classifier, interestEmbeddings, spamList,
                   threshold, waiters, hostInbox, hostReplies, bgInbox, requests,
                   bgVars, tabVars>>

\* retryFetch: a probe fails (rejected fetch, or a non-2xx answer); it is tried
\* again after the backoff unless it was the last of maxRetries
Fetch_Fail(a, e) ==
    /\ a \in 1..Len(attempts)
    /\ attempts[a].phase = "TestingNetwork"
    /\ IF attempts[a].fetchTry = maxRetries
       THEN FailAttempt(a, attempts[a], {"Network", "connectivity", "fetch"} \cup e)
       ELSE /\ attempts' = [attempts EXCEPT ![a].fetchTry = @ + 1,
                                            ![a].backoff = BackoffDelay(attempts[a].fetchTry)]
            /\ UNCHANGED <<modelReady, loadPromise, classifier, interestEmbeddings,
                           spamList, threshold, waiters, hostReplies, bgInbox>>
    /\ UNCHANGED <<hostInbox, requests, bgVars, tabVars>>

\* the library is imported: progress 20, pipeline() is called and raced
\* against the 120 s timer
Import_Ok(a) ==
    /\ a \in 1..Len(attempts)
    /\ attempts[a].phase = "ImportingProvider"
    /\ attempts' = [attempts EXCEPT ![a].phase = "Downloading",
                                    ![a].progress = Append(@, 20),
                                    ![a].pipeline = "pending",
                                    ![a].timer = "armed"]
    /\ UNCHANGED <<modelReady, loadPromise, classifier, interestEmbeddings, spamList,
                   threshold, waiters, hostInbox, hostReplies, bgInbox, requests,
                   bgVars, tabVars>>

\* the import of the library rejects
Import_Fail(a, e) ==
    /\ a \in 1..Len(attempts)
    /\ attempts[a].phase = "ImportingProvider"
    /\ FailAttempt(a, attempts[a], e)
    /\ UNCHANGED <<hostInbox, requests, bgVars, tabVars>>

\* const pipe = await Promise.race([pipelinePromise, timeoutPromise]): the race
\* settles with the first of the two; the construction is heard only while the
\* attempt still awaits the race
RaceWonByPipeline_always(att) == TRUE

RaceWonByPipeline(att) == att.phase = "Downloading"

\* the timer's rejection is heard only while the attempt still awaits the race
RaceWonByTimer_always(att) == TRUE

RaceWonByTimer(att) == att.phase = "Downloading"

\* pipeline() resolves; it wins the race unless the timer already has
Pipeline_Resolve(a) ==
    /\ a \in 1..Len(attempts)
    /\ attempts[a].pipeline = "pending"
    /\ LET att == [attempts[a] EXCEPT !.pipeline = "resolved"] IN
       IF RaceWonByPipeline(attempts[a])
       THEN SucceedAttempt(a, att)
       ELSE /\ attempts' = [attempts EXCEPT ![a] = att]
            /\ UNCHANGED <<modelReady, loadPromise, classifier, interestEmbeddings,
                           spamList, threshold, waiters, hostReplies, bgInbox>>
    /\ UNCHANGED <<hostInbox, requests, bgVars, tabVars>>

\* pipeline() rejects
Pipeline_Reject(a, e) ==
    /\ a \in 1..Len(attempts)
    /\ attempts[a].pipeline = "pending"
    /\ LET att == [attempts[a] EXCEPT !.pipeline = "rejected"] IN
       IF RaceWonByPipeline(attempts[a])
       THEN FailAttempt(a, att, e)
       ELSE /\ attempts' = [attempts EXCEPT ![a] = att]
            /\ UNCHANGED <<modelReady, loadPromise, classifier, interestEmbeddings,
                           spamList, threshold, waiters, hostReplies, bgInbox>>
    /\ UNCHANGED <<hostInbox, requests, bgVars, tabVars>>

\* the 120 s timer fires (it is never cleared)
Timeout_Fire(a) ==
    /\ a \in 1..Len(attempts)
    /\ attempts[a].timer = "armed"
    /\ LET att == [attempts[a] EXCEPT !.timer = "fired"] IN
       IF RaceWonByTimer(attempts[a])
       THEN FailAttempt(a, att, {"timeout"})
       ELSE /\ attempts' = [attempts EXCEPT ![a] = att]
            /\ UNCHANGED <<modelReady, loadPromise, classifier, interestEmbeddings,
                           spamList, threshold, waiters, hostReplies, bgInbox>>
    /\ UNCHANGED <<hostInbox, requests, bgVars, tabVars>>

(***************************************************************************)
(* scripts/offscreen.js: the message listener                              *)
(***************************************************************************)
\* sendResponse of the handler of message m: it reaches the sender when the
\* sender waits for it
Answer(m, ok) ==
    IF m.awaited
    THEN {[type |-> m.type, id |-> m.id, ok |-> ok,
           result |-> IF ok /\ m.type = "CLASSIFY" THEN classify(m.text) ELSE NoResult]}
    ELSE {}

\* await ensureModel() of the handler of message m
EnsureModel(m) ==
    IF classifier # 0
    THEN /\ hostReplies' = hostReplies \cup Answer(m, TRUE)
         /\ UNCHANGED <<loadPromise, attempts, classifier, waiters>>
    ELSE IF MemoHit
    THEN IF attempts[loadPromise].phase = "Ready"
         THEN /\ classifier' = loadPromise
              /\ hostReplies' = hostReplies \cup Answer(m, TRUE)
              /\ UNCHANGED <<loadPromise, attempts, waiters>>
         ELSE /\ waiters' = Append(waiters, [type |-> m.type, id |-> m.id, text |-> m.text,
                                             awaited |-> m.awaited, attempt |-> loadPromise])
              /\ UNCHANGED <<loadPromise, attempts, classifier, hostReplies>>
    ELSE /\ Len(attempts) < MaxAttempts
         /\ attempts' = Append(attempts, NewAttempt)
         /\ loadPromise' = Len(attempts) + 1
         /\ waiters' = Append(waiters, [type |-> m.type, id |-> m.id, text |-> m.text,
                                        awaited |-> m.awaited,
                                        attempt |-> Len(attempts) + 1])
         /\ UNCHANGED <<classifier, hostReplies>>

\* chrome.runtime.onMessage listener of the offscreen document
Offscreen_OnMessage ==
    /\ hostInbox # <<>>
    /\ LET m == Head(hostInbox) IN
       /\ hostInbox' = Tail(hostInbox)
       /\ IF m.type = "SET_INTERESTS"
          THEN /\ interestEmbeddings' = recalcEmbeddings(m.interests)
               /\ spamList' = IF m.hasConfig THEN m.spamKeywords ELSE <<>>
               /\ threshold' = IF m.hasConfig THEN m.threshold ELSE 35
               /\ UNCHANGED <<loadPromise, attempts, classifier, waiters, hostReplies>>
          ELSE /\ m.type \in {"PRELOAD_MODEL", "CLASSIFY"}
               /\ EnsureModel(m)
               /\ UNCHANGED <<interestEmbeddings, spamList, threshold>>
    /\ UNCHANGED <<modelReady, bgInbox, requests, bgVars, tabVars>>

(***************************************************************************)
(* scripts/background.js: the rule-based classifier (tier 2)               *)
(***************************************************************************)
\* values that are not strings: null, undefined, a number
JSNull == <<"#null">>
JSUndefined == <<"#undefined">>
JSNumber == <<"#number">>

\* typeof v === 'string'
IsString_any(v) == TRUE

IsString(v) == v \notin {JSNull, JSUndefined, JSNumber}

\* v || d on a string-or-nothing value
OrElse(v, d) == IF ~IsString(v) \/ v = <<>> THEN d ELSE v

WhiteSpace == {" ", "\t", "\n"}

\* String.prototype.split(/\s+/)
RECURSIVE SkipSpace(_)
SkipSpace(s) == IF s # <<>> /\ Head(s) \in WhiteSpace THEN SkipSpace(Tail(s)) ELSE s

RECURSIVE Split(_)
Split(s) ==
    IF \A i \in 1..Len(s) : s[i] \notin WhiteSpace THEN <<s>>
    ELSE LET i == CHOOSE k \in 1..Len(s) :
                    s[k] \in WhiteSpace /\ \A j \in 1..(k - 1) : s[j] \notin WhiteSpace
         IN  <<SubSeq(s, 1, i - 1)>> \o Split(SkipSpace(SubSeq(s, i, Len(s))))

\* decimal digits of a natural number
RECURSIVE NatToChars(_)
NatToChars(n) ==
    IF n < 10 THEN <<DigitChars[n + 1]>>
    ELSE NatToChars(n \div 10) \o <<DigitChars[(n % 10) + 1]>>

\* Math.round(100 * m / n) for m >= 0, n > 0
RoundPercent(m, n) == (200 * m + n) \div (2 * n)

FallbackSpamKeywords ==
    << <<"s", "p", "o", "n", "s", "o", "r", "e", "d">>,
       <<"p", "r", "o", "m", "o", "t", "e", "d">>,
       <<"a", "d", "v", "e", "r", "t", "i", "s", "e", "m", "e", "n", "t">>,
       <<"b", "u", "y", " ", "n", "o", "w">>,
       <<"c", "l", "i", "c", "k", " ", "h", "e", "r", "e">>,
       <<"l", "i", "m", "i", "t", "e", "d", " ", "t", "i", "m", "e">>,
       <<"a", "c", "t", " ", "n", "o", "w">>,
       <<"d", "m", " ", "m", "e">>,
       <<"l", "i", "n", "k", " ", "i", "n", " ", "b", "i", "o">>,
       <<"f", "o", "l", "l", "o", "w", " ", "b", "a", "c", "k">>,
       <<"g", "e", "t", " ", "r", "i", "c", "h">>,
       <<"m", "a", "k", "e", " ", "m", "o", "n", "e", "y">>,
       <<"w", "o", "r", "k", " ", "f", "r", "o", "m", " ", "h", "o", "m", "e">>,
       <<"c", "r", "y", "p", "t", "o", " ", "o", "p", "p", "o", "r", "t", "u", "n", "i", "t", "y">>,
       <<"i", "n", "v", "e", "s", "t", "m", "e", "n", "t", " ", "o", "p", "p", "o", "r", "t", "u", "n", "i", "t", "y">>,
       <<"f", "4", "f">>,
       <<"l", "4", "l">>,
       <<"c", "h", "e", "c", "k", " ", "m", "y", " ", "b", "i", "o">>,
       <<"p", "r", "o", "m", "o", " ", "c", "o", "d", "e">> >>

qualityIndicators ==
    << <<"r", "e", "s", "e", "a", "r", "c", "h">>,
       <<"s", "t", "u", "d", "y">>,
       <<"a", "n", "a", "l", "y", "s", "i", "s">>,
       <<"b", "r", "e", "a", "k", "t", "h", "r", "o", "u", "g", "h">>,
       <<"d", "i", "s", "c", "o", "v", "e", "r", "e", "d">>,
       <<"p", "u", "b", "l", "i", "s", "h", "e", "d">>,
       <<"s", "c", "i", "e", "n", "t", "i", "s", "t", "s">>,
       <<"u", "n", "i", "v", "e", "r", "s", "i", "t", "y">>,
       <<"p", "a", "p", "e", "r">>,
       <<"f", "i", "n", "d", "i", "n", "g", "s">>,
       <<"d", "a", "t", "a", " ", "s", "h", "o", "w", "s">> >>

\* /^(rt if|retweet if|like if|agree or disagree)/i
BaitPrefixes ==
    << <<"r", "t", " ", "i", "f">>,
       <<"r", "e", "t", "w", "e", "e", "t", " ", "i", "f">>,
       <<"l", "i", "k", "e", " ", "i", "f">>,
       <<"a", "g", "r", "e", "e", " ", "o", "r", " ", "d", "i", "s", "a", "g", "r", "e", "e">> >>

\* the first element of list that s includes, 0 when there is none
FirstIncluded(s, list) ==
    IF SomeIncluded(s, list)
    THEN CHOOSE i \in 1..Len(list) :
            Includes(s, list[i]) /\ \A j \in 1..(i - 1) : ~Includes(s, list[j])
    ELSE 0

\* the increments of matchCount for one pair (word, iWord)
PairMatches(word, iWord) ==
      (IF Len(word) >= 3 /\ Len(iWord) >= 3
          /\ (Includes(word, iWord) \/ Includes(iWord, word)) THEN 1 ELSE 0)
    + (IF word = <<"a", "i">>
          /\ iWord \in {<<"a", "r", "t", "i", "f", "i", "c", "i", "a", "l">>, <<"i", "n", "t", "e", "l", "l", "i", "g", "e", "n", "c", "e">>}
       THEN 1 ELSE 0)
    + (IF word = <<"m", "l">>
          /\ iWord \in {<<"m", "a", "c", "h", "i", "n", "e">>, <<"l", "e", "a", "r", "n", "i", "n", "g">>}
       THEN 1 ELSE 0)
    + (IF word = <<"g", "p", "u">> /\ iWord = <<"g", "r", "a", "p", "h", "i", "c", "s">> THEN 1 ELSE 0)
    + (IF word = <<"c", "p", "u">> /\ iWord = <<"p", "r", "o", "c", "e", "s", "s", "o", "r">> THEN 1 ELSE 0)

RECURSIVE SumOver(_, _, _, _)
\* the two nested loops over words and interestWords
SumOver(words, iWords, w, i) ==
    IF w > Len(words) THEN 0
    ELSE IF i > Len(iWords) THEN SumOver(words, iWords, w + 1, 1)
    ELSE PairMatches(words[w], iWords[i]) + SumOver(words, iWords, w, i + 1)

MatchCount(lowerText, interestLower) == SumOver(Split(lowerText), Split(interestLower), 1, 1)

\* what the call leaves when interest.toLowerCase() throws on a non-string
Thrown == [isUninteresting |-> FALSE, reason |-> [kind |-> "#TypeError", arg |-> <<>>]]

\* the rules after the interest loop, given its bestMatch and bestScore = m / n
AfterInterests_qualityFirst(text, lowerText, bestMatch, m, n) ==
    IF FirstIncluded(lowerText, qualityIndicators) # 0
    THEN [isUninteresting |-> FALSE,
          reason |-> [kind |-> "Quality content: ",
                      arg |-> qualityIndicators[FirstIncluded(lowerText, qualityIndicators)]]]
    ELSE IF \E i \in 1..Len(BaitPrefixes) : StartsWith(lowerText, BaitPrefixes[i])
    THEN [isUninteresting |-> TRUE,
          reason |-> [kind |-> "Engagement bait pattern", arg |-> <<>>]]
    ELSE IF 2 * m > n
    THEN [isUninteresting |-> FALSE,
          reason |-> [kind |-> "Semantic match: ",
                      arg |-> bestMatch \o <<" ", "(">> \o NatToChars(RoundPercent(m, n))
                                        \o <<"%", ")">>]]
    ELSE [isUninteresting |-> TRUE,
          reason |-> [kind |-> "No matching interests (using fallback classification)",
                      arg |-> <<>>]]

AfterInterests(text, lowerText, bestMatch, m, n) ==
    IF \E i \in 1..Len(BaitPrefixes) : StartsWith(lowerText, BaitPrefixes[i])
    THEN [isUninteresting |-> TRUE,
          reason |-> [kind |-> "Engagement bait pattern", arg |-> <<>>]]
    ELSE IF FirstIncluded(lowerText, qualityIndicators) # 0
    THEN [isUninteresting |-> FALSE,
          reason |-> [kind |-> "Quality content: ",
                      arg |-> qualityIndicators[FirstIncluded(lowerText, qualityIndicators)]]]
    ELSE IF 2 * m > n
    THEN [isUninteresting |-> FALSE,
          reason |-> [kind |-> "Semantic match: ",
                      arg |-> bestMatch \o <<" ", "(">> \o NatToChars(RoundPercent(m, n))
                                        \o <<"%", ")">>]]
    ELSE [isUninteresting |-> TRUE,
          reason |-> [kind |-> "No matching interests (using fallback classification)",
                      arg |-> <<>>]]

RECURSIVE InterestLoop(_, _, _, _, _, _, _)
\* for (const interest of interests) { ... }, from index i on
InterestLoop(text, lowerText, interests, i, bestMatch, m, n) ==
    IF i > Len(interests) THEN AfterInterests(text, lowerText, bestMatch, m, n)
    ELSE IF ~IsString(interests[i]) THEN Thrown
    ELSE LET interestLower == ToLowerCase(interests[i])
             count == MatchCount(lowerText, interestLower)
             len == Len(Split(interestLower))
         IN  IF Includes(lowerText, interestLower)
             THEN [isUninteresting |-> FALSE,
                   reason |-> [kind |-> "Direct match: ", arg |-> interests[i]]]
             ELSE IF count * n > m * len
             THEN InterestLoop(text, lowerText, interests, i + 1, interests[i], count, len)
             ELSE InterestLoop(text, lowerText, interests, i + 1, bestMatch, m, n)

\* const fallbackClassification = (text, interests = []) => ...
fallbackClassification(text, interests) ==
    IF ~IsString(text)
    THEN [isUninteresting |-> TRUE, reason |-> [kind |-> "Invalid text input", arg |-> <<>>]]
    ELSE LET lowerText == ToLowerCase(text) IN
         IF FirstIncluded(lowerText, FallbackSpamKeywords) # 0
         THEN [isUninteresting |-> TRUE,
               reason |-> [kind |-> "Spam keyword: ",
                           arg |-> FallbackSpamKeywords[FirstIncluded(lowerText, FallbackSpamKeywords)]]]
         ELSE InterestLoop(text, lowerText, interests, 1, <<>>, 0, 1)

\* the interests written by chrome.runtime.onInstalled
DefaultInterests ==
    << <<"t", "e", "c", "h", "n", "o", "l", "o", "g", "y">>,
       <<"s", "c", "i", "e", "n", "c", "e">>,
       <<"f", "i", "n", "a", "n", "c", "e">>,
       <<"a", "i">>,
       <<"m", "u", "s", "i", "c">>,
       <<"s", "t", "a", "r", "t", "u", "p", "s">>,
       <<"v", "e", "n", "t", "u", "r", "e", " ", "c", "a", "p", "i", "t", "a", "l">>,
       <<"s", "e", "m", "i", "c", "o", "n", "d", "u", "c", "t", "o", "r", "s">>,
       <<"g", "p", "u", "s">>,
       <<"c", "o", "m", "p", "u", "t", "e", "r", " ", "h", "a", "r", "d", "w", "a", "r", "e">>,
       <<"c", "o", "m", "p", "u", "t", "e", "r", " ", "s", "o", "f", "t", "w", "a", "r", "e">> >>

(***************************************************************************)
(* Messages to the offscreen document.                                     *)
(***************************************************************************)
\* const spamKeywords = [...] of the background
spamKeywords ==
    << <<"p", "r", "o", "m", "o", "t", "e", "d">>,
       <<"s", "p", "o", "n", "s", "o", "r", "e", "d">>,
       <<"f", "r", "e", "e", " ", "c", "r", "y", "p", "t", "o">>,
       <<"g", "i", "v", "e", "a", "w", "a", "y">> >>

\* const SIM_THRESHOLD = 0.35, in hundredths
SIM_THRESHOLD == 35

\* { type: 'SET_INTERESTS', interests, spamKeywords, threshold }; hasConfig is
\* false for the message of the storage listener, which carries interests only
SetInterestsMsg(interests, hasConfig) ==
    [type |-> "SET_INTERESTS", id |-> "", text |-> <<>>, awaited |-> FALSE,
     interests |-> interests, hasConfig |-> hasConfig, spamKeywords |-> spamKeywords, threshold |-> SIM_THRESHOLD]

\* { type: 'PRELOAD_MODEL' }, sent by initializeAI without waiting for the answer
PreloadMsg ==
    [type |-> "PRELOAD_MODEL", id |-> "", text |-> <<>>, awaited |-> FALSE,
     interests |-> <<>>,
     hasConfig |-> FALSE, spamKeywords |-> <<>>, threshold |-> 0]

\* { type: 'CLASSIFY', id, text }
ClassifyMsg(id, text) ==
    [type |-> "CLASSIFY", id |-> id, text |-> text, awaited |-> TRUE,
     interests |-> <<>>,
     hasConfig |-> FALSE, spamKeywords |-> <<>>, threshold |-> 0]

(***************************************************************************)
(* scripts/background.js: the orchestrator                                 *)
(***************************************************************************)
\* capacity of the ring buffer kept by logLine
LOG_CAPACITY == 2000

Slots == 1..MaxProcs

IdleProc ==
    [type |-> "none", pc |-> "done", id |-> "", text |-> <<>>, result |-> NoResult,
     tier |-> 0, local |-> <<>>, ops |-> <<>>, running0 |-> FALSE, ready0 |-> FALSE,
     failed0 |-> FALSE, msg |-> "", payload |-> {}]

\* a new invocation of the listener, with what it finds on entry
NewProc(type) ==
    [IdleProc EXCEPT !.type = type, !.running0 = isRunning, !.ready0 = aiReady,
                     !.failed0 = (loadFailures > 0)]

\* a finished invocation is forgotten at the next step of the listener
Settled == [s \in Slots |-> IF procs[s].pc = "done" THEN IdleProc ELSE procs[s]]

HasFree == \E s \in Slots : procs[s].pc = "done"

FreeSlot == CHOOSE s \in Slots : procs[s].pc = "done" /\ \A r \in 1..(s - 1) : procs[r].pc # "done"

Op(name, arg) == [op |-> name, arg |-> arg]

Respond(ok) == Op("sendResponse", IF ok THEN "success" ELSE "failure")

\* const aiStatus = aiReady ? 'ready' : (isRunning ? 'loading' : 'stopped')
AiStatus_runningFirst(run, ready) == IF run THEN "loading" ELSE IF ready THEN "ready" ELSE "stopped"

AiStatus(run, ready) == IF ready THEN "ready" ELSE IF run THEN "loading" ELSE "stopped"

\* the payload of STATUS_UPDATE
StatusPayload(run, ready) ==
    [isRunning |-> run, aiReady |-> ready, aiStatus |-> AiStatus(run, ready)]

\* if (isRunning) return; at the head of startCuration
StartGuard_absent == FALSE

StartGuard == isRunning

\* if (aiReady) await startContentScript(); else await initializeAI();
ProviderReadyAtStart_assumed == TRUE

ProviderReadyAtStart == aiReady

\* if (!isRunning) return; at the head of stopCuration
StopGuard_absent == FALSE

StopGuard == ~isRunning

\* if (isRunning) { ... } around the EVALUATE_TWEET case
EvaluateGuard_absent == TRUE

EvaluateGuard == isRunning

\* the AI_LOAD_FAILED case leaves isRunning as it is
IsRunningAfterLoadFailed_stopped == FALSE

IsRunningAfterLoadFailed == isRunning

\* classificationResult.isUninteresting ? 'hide' : 'keep'
Decision_keep(result) == "keep"

Decision(result) == IF result.isUninteresting THEN "hide" ELSE "keep"

\* classificationResult.isUninteresting ? 'hidden' : 'kept'
ActivityDecision(result) == IF result.isUninteresting THEN "hidden" ELSE "kept"

\* const isNetworkError = errorMessage.includes('Network') || ...
isNetworkError_always(payload) == TRUE

isNetworkError(payload) ==
    \/ MsgIncludes(payload, "Network") \/ MsgIncludes(payload, "fetch")
    \/ MsgIncludes(payload, "timeout") \/ MsgIncludes(payload, "connectivity")

\* logLine: push the entry, then if (curationLog.length > 2000) curationLog.shift()
Shift_never(log) == log

Shift(log) == IF Len(log) > LOG_CAPACITY THEN Tail(log) ELSE log

\* id || 'unknown'
IdOrUnknown(id) == IF id = "" THEN "unknown" ELSE id

\* the entry logLine pushes for the invocation p
LogEntry(p) ==
    [ts |-> clock, id |-> IdOrUnknown(p.id), decision |-> Decision(p.result),
     reason |-> p.result.reason, text |-> OrElse(p.text, <<>>)]

\* location.href of the feed tab, the part after the origin https://x.com
HomeUrl == <<"/", "h", "o", "m", "e">>

ExploreUrl == <<"/", "e", "x", "p", "l", "o", "r", "e">>

StatusUrl == <<"/", "u", "/", "s", "t", "a", "t", "u", "s", "/", "1">>

Urls == {HomeUrl, ExploreUrl, StatusUrl}

\* checkIfTwitterFeed on a page of x.com
checkIfTwitterFeed(url) ==
    \/ Includes(url, <<"/", "h", "o", "m", "e">>)
    \/ url = <<"/">>
    \/ Includes(url, <<"/", "t", "i", "m", "e", "l", "i", "n", "e">>)
    \/ ~Includes(url, <<"/", "s", "t", "a", "t", "u", "s", "/">>)

\* start() in a document that has loaded: setInterval(processFeed, 5000) and
\* a MutationObserver on the document, which is never disconnected
start(tab) ==
    IF tab.loop THEN tab
    ELSE IF ~checkIfTwitterFeed(tab.url) THEN tab
    ELSE [tab EXCEPT !.loop = TRUE, !.observing = TRUE]

\* stop(): clearInterval(mainLoopInterval)
stop(tab) == IF tab.loop THEN [tab EXCEPT !.loop = FALSE] ELSE tab

\* the callback of the MutationObservers after location.href has changed
UrlChanged(tab) ==
    IF ~checkIfTwitterFeed(tab.url) /\ tab.loop THEN stop(tab)
    ELSE IF checkIfTwitterFeed(tab.url) /\ ~tab.loop THEN start(tab)
    ELSE tab

\* the content script handles a directive: start(), stop(), markTweetAsNotInterested;
\* directive records the last START or STOP it has handled
ContentOnMessage(tab, msg, id) ==
    IF msg = "START" THEN [start(tab) EXCEPT !.directive = "START"]
    ELSE IF msg = "STOP" THEN [stop(tab) EXCEPT !.directive = "STOP"]
    ELSE IF msg = "MARK_TWEET" THEN [tab EXCEPT !.hidden = @ \cup {id}]
    ELSE tab

\* forwardToContentScript for the feed tab: PING, then the message; on a
\* connection error the script is injected and the message is sent once more
Deliver(tab, msg, id, injectOk) ==
    IF tab.script THEN ContentOnMessage(tab, msg, id)
    ELSE IF injectOk THEN ContentOnMessage([tab EXCEPT !.script = TRUE], msg, id)
    ELSE tab

(***************************** START_CURATION ******************************)
\* case 'START_CURATION': startCuration() up to its first await
Bg_StartCuration ==
    /\ commands < MaxCommands
    /\ HasFree
    /\ commands' = commands + 1
    /\ LET p == NewProc("START_CURATION") IN
       procs' = [Settled EXCEPT ![FreeSlot] =
                    IF StartGuard
                    THEN [p EXCEPT !.ops = <<Respond(TRUE)>>]
                    ELSE [p EXCEPT !.pc = "tabs_query"]]
    /\ UNCHANGED <<hostVars, tabVars, isRunning, aiReady, cachedInterests, store, alarm,
                   retryTimers, uiStatus, loadFailures, clock>>

\* chrome.tabs.query answers: the active tab is eligible or it is not
Start_TabsQuery(s, eligible) ==
    /\ procs[s].type = "START_CURATION" /\ procs[s].pc = "tabs_query"
    /\ procs' = [Settled EXCEPT ![s] =
                    IF eligible THEN [@ EXCEPT !.pc = "ping"]
                    ELSE [@ EXCEPT !.pc = "done", !.ops = Append(@, Respond(TRUE))]]
    /\ UNCHANGED <<hostVars, tabVars, isRunning, aiReady, cachedInterests, store, alarm,
                   retryTimers, uiStatus, loadFailures, clock, commands>>

\* the PING answers, or the script is injected; then isRunning = true and
\* chrome.storage.local.set({ isRunning })
Start_Ping(s, injectOk) ==
    /\ procs[s].type = "START_CURATION" /\ procs[s].pc = "ping"
    /\ IF feedTab.script \/ injectOk
       THEN /\ feedTab' = [feedTab EXCEPT !.script = TRUE]
            /\ isRunning' = TRUE
            /\ store' = [store EXCEPT !.isRunning = TRUE]
            /\ procs' = [Settled EXCEPT ![s].pc = "stored",
                                      ![s].ops = Append(@, Op("storage.set", "isRunning"))]
       ELSE /\ procs' = [Settled EXCEPT ![s].pc = "done", ![s].ops = Append(@, Respond(TRUE))]
            /\ UNCHANGED <<feedTab, isRunning, store>>
    /\ UNCHANGED <<hostVars, evalInbox, emitted, aiReady, cachedInterests, alarm,
                   retryTimers, uiStatus, loadFailures, clock, commands>>

\* chrome.alarms.create, then startContentScript() or initializeAI()
Start_Stored(s) ==
    /\ procs[s].type = "START_CURATION" /\ procs[s].pc = "stored"
    /\ alarm' = TRUE
    /\ IF ProviderReadyAtStart
       THEN /\ procs' = [Settled EXCEPT ![s].pc = "forward", ![s].msg = "START",
                            ![s].ops = @ \o <<Op("alarms.create", ""), Op("forward", "START")>>]
            /\ UNCHANGED <<uiStatus, store>>
       ELSE /\ procs' = [Settled EXCEPT ![s].pc = "initAI",
                            ![s].ops = @ \o <<Op("alarms.create", ""), Op("initializeAI", ""),
                                              Op("STATUS_UPDATE", AiStatus(isRunning, aiReady))>>]
            /\ uiStatus' = StatusPayload(isRunning, aiReady)
            /\ store' = [store EXCEPT !.aiStatus = AiStatus(isRunning, aiReady)]
    /\ UNCHANGED <<hostVars, tabVars, isRunning, aiReady, cachedInterests, retryTimers,
                   loadFailures, clock, commands>>

(******************************* initializeAI ******************************)
\* initializeAI after the offscreen document is set up: PRELOAD_MODEL is sent
\* and the status is broadcast
InitializeAI_Preload(s) ==
    /\ procs[s].pc = "initAI"
    /\ hostInbox' = Append(hostInbox, PreloadMsg)
    /\ uiStatus' = StatusPayload(isRunning, aiReady)
    /\ store' = [store EXCEPT !.aiStatus = AiStatus(isRunning, aiReady)]
    /\ procs' = [Settled EXCEPT ![s].pc = "initAI_end",
                    ![s].ops = @ \o <<Op("PRELOAD_MODEL", ""),
                                      Op("STATUS_UPDATE", AiStatus(isRunning, aiReady))>>]
    /\ UNCHANGED <<modelReady, loadPromise, attempts, classifier, interestEmbeddings,
                   spamList, threshold, waiters, hostReplies, bgInbox, requests, tabVars,
                   isRunning, aiReady, cachedInterests, alarm, retryTimers, loadFailures,
                   clock, commands>>

\* initializeAI has returned to the handler that awaited it
InitializeAI_Return(s) ==
    /\ procs[s].pc = "initAI_end"
    /\ IF procs[s].type = "START_CURATION"
       THEN /\ uiStatus' = StatusPayload(isRunning, aiReady)
            /\ store' = [store EXCEPT !.aiStatus = AiStatus(isRunning, aiReady)]
            /\ procs' = [Settled EXCEPT ![s].pc = "done",
                            ![s].ops = @ \o <<Op("STATUS_UPDATE", AiStatus(isRunning, aiReady)),
                                              Respond(TRUE)>>]
       ELSE /\ procs' = [Settled EXCEPT ![s].pc = "done",
                            ![s].ops = IF procs[s].type = "RETRY_AI_LOAD"
                                       THEN Append(@, Respond(TRUE)) ELSE @]
            /\ UNCHANGED <<uiStatus, store>>
    /\ UNCHANGED <<hostVars, tabVars, isRunning, aiReady, cachedInterests, alarm,
                   retryTimers, loadFailures, clock, commands>>

(*************************** forwardToContentScript ************************)
\* forwardToContentScript after chrome.tabs.query: the directive is delivered
\* to the feed tab, and the caller goes on
Forward_Deliver(s, injectOk) ==
    /\ procs[s].pc = "forward"
    /\ feedTab' = Deliver(feedTab, procs[s].msg, procs[s].id, injectOk)
    /\ IF procs[s].type \in {"START_CURATION", "STOP_CURATION"}
       THEN /\ uiStatus' = StatusPayload(isRunning, aiReady)
            /\ store' = [store EXCEPT !.aiStatus = AiStatus(isRunning, aiReady)]
            /\ procs' = [Settled EXCEPT ![s].pc = "done",
                            ![s].ops = @ \o <<Op("STATUS_UPDATE", AiStatus(isRunning, aiReady)),
                                              Respond(TRUE)>>]
       ELSE /\ procs' = [Settled EXCEPT ![s].pc = "done",
                            ![s].ops = IF procs[s].type = "AI_READY" THEN @
                                       ELSE Append(@, Respond(TRUE))]
            /\ UNCHANGED <<uiStatus, store>>
    /\ UNCHANGED <<hostVars, evalInbox, emitted, isRunning, aiReady, cachedInterests,
                   alarm, retryTimers, loadFailures, clock, commands>>

\* what chrome answers for one target tab: whether the tab is loaded, how the
\* PING and the directive fare (answered, no receiver, another error), whether
\* the injection succeeds and how the directive fares when sent again
TargetOutcomes ==
    [ready : BOOLEAN, ping : {"ok", "noReceiver", "error"},
     send : {"ok", "noReceiver", "error"}, inject : BOOLEAN, resend : {"ok", "error"}]

\* the catch of a connection error: executeScript, and after the grace period
\* the directive once more
Reinject_twice(out) ==
    <<Op("executeScript", "failed"), Op("executeScript", IF out.inject THEN "ok" ELSE "failed")>>
        \o (IF out.inject THEN <<Op("tabs.sendMessage", out.resend)>> ELSE <<>>)

Reinject(out) ==
    <<Op("executeScript", IF out.inject THEN "ok" ELSE "failed")>>
        \o (IF out.inject THEN <<Op("tabs.sendMessage", out.resend)>> ELSE <<>>)

\* the calls forwardToContentScript makes for one target, with their outcomes
ForwardTrace(out) ==
    IF ~out.ready THEN <<>>
    ELSE IF out.ping = "ok"
    THEN <<Op("PING", "ok"), Op("tabs.sendMessage", out.send)>>
            \o (IF out.send = "noReceiver" THEN Reinject(out) ELSE <<>>)
    ELSE <<Op("PING", out.ping)>>
            \o (IF out.ping = "noReceiver" THEN Reinject(out) ELSE <<>>)

\* the content script was injected in the course of the call
Injected(out) ==
    \E i \in 1..Len(ForwardTrace(out)) : ForwardTrace(out)[i] = Op("executeScript", "ok")

\* the directive reached the content script
Delivered(out) ==
    \E i \in 1..Len(ForwardTrace(out)) : ForwardTrace(out)[i] = Op("tabs.sendMessage", "ok")

\* forwardToContentScript for the feed tab, call by call: every rejection is
\* caught, and the caller goes on
Forward_Target(s, out) ==
    /\ procs[s].pc = "forward"
    /\ out.ping = "ok" => feedTab.script
    /\ LET tab == IF Injected(out) THEN [feedTab EXCEPT !.script = TRUE] ELSE feedTab IN
       feedTab' = IF Delivered(out) THEN ContentOnMessage(tab, procs[s].msg, procs[s].id)
                  ELSE tab
    /\ IF procs[s].type \in {"START_CURATION", "STOP_CURATION"}
       THEN /\ uiStatus' = StatusPayload(isRunning, aiReady)
            /\ store' = [store EXCEPT !.aiStatus = AiStatus(isRunning, aiReady)]
            /\ procs' = [Settled EXCEPT ![s].pc = "done",
                            ![s].ops = @ \o ForwardTrace(out)
                                         \o <<Op("STATUS_UPDATE", AiStatus(isRunning, aiReady)),
                                              Respond(TRUE)>>]
       ELSE /\ procs' = [Settled EXCEPT ![s].pc = "done",
                            ![s].ops = @ \o ForwardTrace(out)
                                         \o (IF procs[s].type = "AI_READY" THEN <<>>
                                             ELSE <<Respond(TRUE)>>)]
            /\ UNCHANGED <<uiStatus, store>>
    /\ UNCHANGED <<hostVars, evalInbox, emitted, isRunning, aiReady, cachedInterests,
                   alarm, retryTimers, loadFailures, clock, commands>>

(******************************* STOP_CURATION *****************************)
\* case 'STOP_CURATION': stopCuration() up to its first await
Bg_StopCuration ==
    /\ commands < MaxCommands
    /\ HasFree
    /\ commands' = commands + 1
    /\ LET p == NewProc("STOP_CURATION") IN
       IF StopGuard
       THEN /\ procs' = [Settled EXCEPT ![FreeSlot] = [p EXCEPT !.ops = <<Respond(TRUE)>>]]
            /\ UNCHANGED <<isRunning, store>>
       ELSE /\ isRunning' = FALSE
            /\ store' = [store EXCEPT !.isRunning = FALSE]
            /\ procs' = [Settled EXCEPT ![FreeSlot] =
                            [p EXCEPT !.pc = "stop_stored",
                                      !.ops = <<Op("storage.set", "isRunning")>>]]
    /\ UNCHANGED <<hostVars, tabVars, aiReady, cachedInterests, alarm, retryTimers,
                   uiStatus, loadFailures, clock>>

\* chrome.alarms.clear, then stopContentScript()
Stop_Stored(s) ==
    /\ procs[s].type = "STOP_CURATION" /\ procs[s].pc = "stop_stored"
    /\ alarm' = FALSE
    /\ procs' = [Settled EXCEPT ![s].pc = "forward", ![s].msg = "STOP",
                    ![s].ops = @ \o <<Op("alarms.clear", ""), Op("forward", "STOP")>>]
    /\ UNCHANGED <<hostVars, tabVars, isRunning, aiReady, cachedInterests, store,
                   retryTimers, uiStatus, loadFailures, clock, commands>>

(****************************** EVALUATE_TWEET *****************************)
EvalsUnderWay ==
    Len(evalInbox) + Cardinality({s \in Slots : procs[s].type = "EVALUATE_TWEET"
                                                 /\ procs[s].pc # "done"})

\* case 'EVALUATE_TWEET', up to its first await: nothing unless running; a
\* CLASSIFY request when the model manager of this context reports ready, else
\* the fallback classification and the storage read of logLine
Bg_EvaluateTweet ==
    /\ evalInbox # <<>>
    /\ HasFree
    /\ evalInbox' = Tail(evalInbox)
    /\ LET tw == Head(evalInbox)
           p == [NewProc("EVALUATE_TWEET") EXCEPT !.id = tw.id, !.text = tw.text]
           fb == fallbackClassification(tw.text, cachedInterests)
       IN  IF ~EvaluateGuard
           THEN /\ procs' = [Settled EXCEPT ![FreeSlot] = [p EXCEPT !.ops = <<Respond(TRUE)>>]]
                /\ UNCHANGED hostInbox
           ELSE IF isModelReady("background")
           THEN /\ procs' = [Settled EXCEPT ![FreeSlot] =
                                [p EXCEPT !.pc = "classify", !.ops = <<Op("CLASSIFY", tw.id)>>]]
                /\ hostInbox' = Append(hostInbox, ClassifyMsg(tw.id, tw.text))
           ELSE /\ procs' = [Settled EXCEPT ![FreeSlot] =
                                IF fb = Thrown
                                THEN [p EXCEPT !.ops = <<Respond(FALSE)>>]
                                ELSE [p EXCEPT !.pc = "log_get", !.result = fb, !.tier = 2]]
                /\ UNCHANGED hostInbox
    /\ UNCHANGED <<modelReady, loadPromise, attempts, classifier, interestEmbeddings,
                   spamList, threshold, waiters, hostReplies, bgInbox, requests,
                   feedTab, emitted, isRunning, aiReady, cachedInterests, store, alarm,
                   retryTimers, uiStatus, loadFailures, clock, commands>>

\* an await of the handler resolves: the answer to CLASSIFY arrives, or
\* chrome.storage.local.get({curationLog: []}) of logLine is served
Evaluate_Await(s) ==
    /\ procs[s].pc \in {"classify", "log_get"}
    /\ IF procs[s].pc = "classify"
       THEN \E r \in hostReplies :
                /\ r.type = "CLASSIFY" /\ r.id = procs[s].id
                /\ hostReplies' = hostReplies \ {r}
                /\ procs' = [Settled EXCEPT ![s].pc = "log_get", ![s].result = r.result,
                                          ![s].tier = 1]
       ELSE /\ procs' = [Settled EXCEPT ![s].pc = "log_got", ![s].local = store.curationLog]
            /\ UNCHANGED hostReplies
    /\ UNCHANGED <<modelReady, loadPromise, attempts, classifier, interestEmbeddings,
                   spamList, threshold, waiters, hostInbox, bgInbox, requests, tabVars,
                   isRunning, aiReady, cachedInterests, store, alarm, retryTimers,
                   uiStatus, loadFailures, clock, commands>>

\* logLine resumes with the stored log: push, shift, chrome.storage.local.set
LogLine_Write(s) ==
    /\ procs[s].pc = "log_got"
    /\ store' = [store EXCEPT !.curationLog = Shift(Append(procs[s].local, LogEntry(procs[s])))]
    /\ clock' = clock + 1
    /\ procs' = [Settled EXCEPT ![s].pc = "log_set", ![s].local = <<>>,
                    ![s].ops = Append(@, Op("logLine", Decision(procs[s].result)))]
    /\ UNCHANGED <<hostVars, tabVars, isRunning, aiReady, cachedInterests, alarm,
                   retryTimers, uiStatus, loadFailures, commands>>

\* where the handler goes on after logLine caught a storage error: logLine
\* returns, and the handler broadcasts ACTIVITY_LOG
AfterLogFailure_thrown == "done"

AfterLogFailure == "log_set"

\* chrome.storage.local.get rejects in logLine: the error is logged, logLine returns
LogLine_GetFail(s) ==
    /\ procs[s].pc = "log_get"
    /\ procs' = [Settled EXCEPT ![s].pc = AfterLogFailure,
                    ![s].ops = Append(@, Op("logLine", "get failed"))]
    /\ UNCHANGED <<hostVars, tabVars, isRunning, aiReady, cachedInterests, store, alarm,
                   retryTimers, uiStatus, loadFailures, clock, commands>>

\* chrome.storage.local.set rejects in logLine: the error is logged, the stored
\* log stays as it was
LogLine_SetFail(s) ==
    /\ procs[s].pc = "log_got"
    /\ clock' = clock + 1
    /\ procs' = [Settled EXCEPT ![s].pc = AfterLogFailure, ![s].local = <<>>,
                    ![s].ops = Append(@, Op("logLine", "set failed"))]
    /\ UNCHANGED <<hostVars, tabVars, isRunning, aiReady, cachedInterests, store, alarm,
                   retryTimers, uiStatus, loadFailures, commands>>

\* logLine has returned: ACTIVITY_LOG is broadcast, then MARK_TWEET is
\* forwarded if the item is uninteresting
Evaluate_Activity(s) ==
    /\ procs[s].pc = "log_set"
    /\ procs' = [Settled EXCEPT ![s] =
            IF procs[s].result.isUninteresting
            THEN [@ EXCEPT !.pc = "forward", !.msg = "MARK_TWEET",
                           !.ops = @ \o <<Op("ACTIVITY_LOG", ActivityDecision(procs[s].result)),
                                          Op("forward", "MARK_TWEET")>>]
            ELSE [@ EXCEPT !.pc = "done",
                           !.ops = @ \o <<Op("ACTIVITY_LOG", ActivityDecision(procs[s].result)),
                                          Respond(TRUE)>>]]
    /\ UNCHANGED <<hostVars, tabVars, isRunning, aiReady, cachedInterests, store, alarm,
                   retryTimers, uiStatus, loadFailures, clock, commands>>

\* case 'CLASSIFICATION_RESULT', up to its first await
Bg_ClassificationResult(payload) ==
    /\ HasFree
    /\ emitted < MaxLogEvals
    /\ emitted' = emitted + 1
    /\ LET p == [NewProc("CLASSIFICATION_RESULT") EXCEPT !.id = payload.id,
                    !.text = payload.text,
                    !.result = [isUninteresting |-> payload.isUninteresting,
                                reason |-> payload.reason]]
       IN  procs' = [Settled EXCEPT ![FreeSlot] =
                        IF isRunning THEN [p EXCEPT !.pc = "log_get"]
                        ELSE [p EXCEPT !.ops = <<Respond(TRUE)>>]]
    /\ UNCHANGED <<hostVars, feedTab, evalInbox, isRunning, aiReady, cachedInterests,
                   store, alarm, retryTimers, uiStatus, loadFailures, clock, commands>>

(****************************** other messages *****************************)
\* the case labels of the listener's switch
RoutingTable ==
    {"START_CURATION", "STOP_CURATION", "OFFSCREEN_READY", "EVALUATE_TWEET", "AI_READY",
     "CLASSIFICATION_RESULT", "AI_LOAD_PROGRESS", "AI_LOAD_FAILED", "RETRY_AI_LOAD"}

\* types of messages the listener receives beside those handled above: two of
\* the table, two that are not in it (one a message without a type)
OtherTypes == {"OFFSCREEN_READY", "AI_LOAD_PROGRESS", "GET_STATUS", "#undefined"}

\* default: sendResponse({ success: false, error: 'Unknown message type' })
UnknownResponse_silent == <<>>

UnknownResponse == <<Op("sendResponse", "Unknown message type")>>

\* case 'OFFSCREEN_READY' answers; case 'AI_LOAD_PROGRESS' forwards the payload
\* to the popup and answers; any other type falls to the default case
Bg_Other(type) ==
    /\ commands < MaxCommands
    /\ HasFree
    /\ commands' = commands + 1
    /\ procs' = [Settled EXCEPT ![FreeSlot] =
            [NewProc(type) EXCEPT !.ops =
                IF type = "OFFSCREEN_READY" THEN <<Respond(TRUE)>>
                ELSE IF type = "AI_LOAD_PROGRESS"
                THEN <<Op("AI_LOAD_PROGRESS", "forward"), Respond(TRUE)>>
                ELSE UnknownResponse]]
    /\ UNCHANGED <<hostVars, tabVars, isRunning, aiReady, cachedInterests, store, alarm,
                   retryTimers, uiStatus, loadFailures, clock>>

(********************************* AI_READY ********************************)
\* case 'AI_READY', up to its first await: aiReady = true, SET_INTERESTS with
\* the spam list and the threshold, and the status broadcast
Bg_AIReady ==
    /\ bgInbox # <<>> /\ Head(bgInbox).type = "AI_READY"
    /\ HasFree
    /\ bgInbox' = Tail(bgInbox)
    /\ aiReady' = TRUE
    /\ hostInbox' = Append(hostInbox, SetInterestsMsg(cachedInterests, TRUE))
    /\ uiStatus' = StatusPayload(isRunning, TRUE)
    /\ store' = [store EXCEPT !.aiStatus = AiStatus(isRunning, TRUE)]
    /\ procs' = [Settled EXCEPT ![FreeSlot] =
                    [NewProc("AI_READY") EXCEPT !.pc = "ready_bcast",
                        !.ops = <<Op("SET_INTERESTS", ""),
                                  Op("STATUS_UPDATE", AiStatus(isRunning, TRUE))>>]]
    /\ UNCHANGED <<modelReady, loadPromise, attempts, classifier, interestEmbeddings,
                   spamList, threshold, waiters, hostReplies, requests, tabVars,
                   isRunning, cachedInterests, alarm, retryTimers, loadFailures, clock,
                   commands>>

\* if (isRunning) startContentScript(); sendResponse({ success: true })
Ready_After(s) ==
    /\ procs[s].type = "AI_READY" /\ procs[s].pc = "ready_bcast"
    /\ procs' = [Settled EXCEPT ![s] =
            IF isRunning
            THEN [@ EXCEPT !.pc = "forward", !.msg = "START",
                           !.ops = @ \o <<Op("forward", "START"), Respond(TRUE)>>]
            ELSE [@ EXCEPT !.pc = "done", !.ops = Append(@, Respond(TRUE))]]
    /\ UNCHANGED <<hostVars, tabVars, isRunning, aiReady, cachedInterests, store, alarm,
                   retryTimers, uiStatus, loadFailures, clock, commands>>

(****************************** AI_LOAD_FAILED *****************************)
\* case 'AI_LOAD_FAILED', up to its first await: aiReady = false and the
\* failure is passed on to the popup
Bg_AILoadFailed ==
    /\ bgInbox # <<>> /\ Head(bgInbox).type = "AI_LOAD_FAILED"
    /\ HasFree
    /\ bgInbox' = Tail(bgInbox)
    /\ aiReady' = FALSE
    /\ isRunning' = IsRunningAfterLoadFailed
    /\ loadFailures' = loadFailures + 1
    /\ procs' = [Settled EXCEPT ![FreeSlot] =
                    [NewProc("AI_LOAD_FAILED") EXCEPT !.pc = "failed_fwd",
                        !.payload = Head(bgInbox).payload,
                        !.ops = <<Op("AI_LOAD_FAILED", "")>>]]
    /\ UNCHANGED <<modelReady, loadPromise, attempts, classifier, interestEmbeddings,
                   spamList, threshold, waiters, hostInbox, hostReplies, requests,
                   tabVars, cachedInterests, store, alarm, retryTimers, uiStatus, clock,
                   commands>>

\* a network failure while running arms the 15 s retry; then the status
\* broadcast and the response
Failed_After(s) ==
    /\ procs[s].type = "AI_LOAD_FAILED" /\ procs[s].pc = "failed_fwd"
    /\ LET retry == isNetworkError(procs[s].payload) /\ isRunning IN
       /\ retryTimers' = IF retry THEN retryTimers + 1 ELSE retryTimers
       /\ procs' = [Settled EXCEPT ![s].pc = "done",
                        ![s].ops = @ \o (IF retry THEN <<Op("setTimeout", "retry")>> ELSE <<>>)
                                     \o <<Op("STATUS_UPDATE", AiStatus(isRunning, aiReady)),
                                          Respond(TRUE)>>]
    /\ uiStatus' = StatusPayload(isRunning, aiReady)
    /\ store' = [store EXCEPT !.aiStatus = AiStatus(isRunning, aiReady)]
    /\ UNCHANGED <<hostVars, tabVars, isRunning, aiReady, cachedInterests, alarm,
                   loadFailures, clock, commands>>

\* the retry timer fires: if (isRunning && !aiReady) initializeAI()
RetryTimer_Fire ==
    /\ retryTimers > 0
    /\ retryTimers' = retryTimers - 1
    /\ IF isRunning /\ ~aiReady
       THEN /\ HasFree
            /\ procs' = [Settled EXCEPT ![FreeSlot] =
                            [NewProc("RETRY_TIMER") EXCEPT !.pc = "initAI",
                                !.ops = <<Op("initializeAI", ""),
                                          Op("STATUS_UPDATE", AiStatus(isRunning, aiReady))>>]]
            /\ uiStatus' = StatusPayload(isRunning, aiReady)
            /\ store' = [store EXCEPT !.aiStatus = AiStatus(isRunning, aiReady)]
       ELSE UNCHANGED <<procs, uiStatus, store>>
    /\ UNCHANGED <<hostVars, tabVars, isRunning, aiReady, cachedInterests, alarm,
                   loadFailures, clock, commands>>

(******************************* RETRY_AI_LOAD *****************************)
\* case 'RETRY_AI_LOAD', up to its first await
Bg_RetryAILoad ==
    /\ commands < MaxCommands
    /\ HasFree
    /\ commands' = commands + 1
    /\ IF isRunning
       THEN /\ aiReady' = FALSE
            /\ uiStatus' = StatusPayload(isRunning, FALSE)
            /\ store' = [store EXCEPT !.aiStatus = AiStatus(isRunning, FALSE)]
            /\ procs' = [Settled EXCEPT ![FreeSlot] =
                            [NewProc("RETRY_AI_LOAD") EXCEPT !.pc = "retry_bcast",
                                !.ops = <<Op("STATUS_UPDATE", AiStatus(isRunning, FALSE))>>]]
       ELSE /\ procs' = [Settled EXCEPT ![FreeSlot] =
                            [NewProc("RETRY_AI_LOAD") EXCEPT !.ops = <<Respond(FALSE)>>]]
            /\ UNCHANGED <<aiReady, uiStatus, store>>
    /\ UNCHANGED <<hostVars, tabVars, isRunning, cachedInterests, alarm, retryTimers,
                   loadFailures, clock>>

\* the progress message, then initializeAI() up to its first await
Retry_After(s) ==
    /\ procs[s].type = "RETRY_AI_LOAD" /\ procs[s].pc = "retry_bcast"
    /\ uiStatus' = StatusPayload(isRunning, aiReady)
    /\ store' = [store EXCEPT !.aiStatus = AiStatus(isRunning, aiReady)]
    /\ procs' = [Settled EXCEPT ![s].pc = "initAI",
                    ![s].ops = @ \o <<Op("initializeAI", ""),
                                      Op("STATUS_UPDATE", AiStatus(isRunning, aiReady))>>]
    /\ UNCHANGED <<hostVars, tabVars, isRunning, aiReady, cachedInterests, alarm,
                   retryTimers, loadFailures, clock, commands>>

(*************************** storage.onChanged *****************************)
\* an interest list the popup saves in place of the stored one
SavedInterests == << <<"m", "u", "s", "i", "c">>, <<"j", "a", "z", "z">> >>

InterestLists == {DefaultInterests, SavedInterests}

\* the popup stores a new interest list and chrome.storage.onChanged fires in
\* the background: cachedInterests = newValue, and SET_INTERESTS with the
\* interests alone is sent if (aiReady)
Bg_InterestsChanged(new) ==
    /\ requests < MaxRequests
    /\ requests' = requests + 1
    /\ new # store.interests
    /\ store' = [store EXCEPT !.interests = new]
    /\ cachedInterests' = new
    /\ hostInbox' = IF aiReady THEN Append(hostInbox, SetInterestsMsg(new, FALSE))
                  ELSE hostInbox
    /\ UNCHANGED <<modelReady, loadPromise, attempts, classifier, interestEmbeddings,
                   spamList, threshold, waiters, hostReplies, bgInbox, tabVars,
                   isRunning, aiReady, alarm, retryTimers, procs, uiStatus, loadFailures,
                   clock, commands>>

(***************************************************************************)
(* scripts/content.js: the feed observer                                   *)
(***************************************************************************)
Tweet1 == [id |-> "tweet-1",
           text |-> <<"S", "p", "o", "n", "s", "o", "r", "e", "d", ":", " ",
                      "n", "e", "w", " ", "a", "i", " ", "c", "h", "i", "p", "s">>]

Tweet2 == [id |-> "tweet-2",
           text |-> <<"n", "e", "w", " ", "a", "i", " ", "c", "h", "i", "p", "s",
                      " ", "a", "r", "e", " ", "o", "u", "t">>]

Tweets == {Tweet1, Tweet2}

\* processFeed, run by the interval while the loop is active, sends
\* EVALUATE_TWEET for an unprocessed tweet
ProcessFeed(tw, bound) ==
    /\ feedTab.loop
    /\ checkIfTwitterFeed(feedTab.url)
    /\ emitted < bound
    /\ EvalsUnderWay < MaxInFlight
    /\ emitted' = emitted + 1
    /\ evalInbox' = Append(evalInbox, tw)
    /\ UNCHANGED <<hostVars, bgVars, feedTab>>

\* the page of the feed tab navigates inside the single-page application:
\* location.href changes and the observers installed by start() see it
Tab_Navigate(url) ==
    /\ feedTab.script
    /\ url # feedTab.url
    /\ LET tab == [feedTab EXCEPT !.url = url] IN
       feedTab' = IF tab.observing THEN UrlChanged(tab) ELSE tab
    /\ UNCHANGED <<hostVars, bgVars, evalInbox, emitted>>

(***************************************************************************)
(* The environment of the inference host on its own (SpecLoad): any        *)
(* context may address the offscreen listener.                             *)
(***************************************************************************)
HostInterests == << <<"a", "i">>, <<"m", "u", "s", "i", "c">> >>

Env_Preload ==
    /\ requests < MaxRequests
    /\ requests' = requests + 1
    /\ hostInbox' = Append(hostInbox, [PreloadMsg EXCEPT !.awaited = TRUE])
    /\ UNCHANGED <<modelReady, loadPromise, attempts, classifier, interestEmbeddings,
                   spamList, threshold, waiters, hostReplies, bgInbox, bgVars, tabVars>>

Env_Classify ==
    /\ requests < MaxRequests
    /\ requests' = requests + 1
    /\ \E tw \in Tweets : hostInbox' = Append(hostInbox, ClassifyMsg(tw.id, tw.text))
    /\ UNCHANGED <<modelReady, loadPromise, attempts, classifier, interestEmbeddings,
                   spamList, threshold, waiters, hostReplies, bgInbox, bgVars, tabVars>>

Env_SetInterests ==
    /\ requests < MaxRequests
    /\ requests' = requests + 1
    /\ hostInbox' = Append(hostInbox, SetInterestsMsg(HostInterests, TRUE))
    /\ UNCHANGED <<modelReady, loadPromise, attempts, classifier, interestEmbeddings,
                   spamList, threshold, waiters, hostReplies, bgInbox, bgVars, tabVars>>

\* the texts, interest lists, spam lists and thresholds (in hundredths) a
\* context may send to the host
Tweet3 == [id |-> "tweet-3", text |-> <<"l", "u", "n", "c", "h", " ", "w", "a", "s", " ", "g", "o", "o", "d">>]

Tier1Tweets == {Tweet1, Tweet2, Tweet3}

Tier1Interests == {<<>>, <<<<"a", "i">>>>, <<<<"m", "u", "s", "i", "c">>>>, HostInterests}

Tier1SpamLists == {<<>>, spamKeywords}

Tier1Thresholds == {SIM_THRESHOLD, 60}

\* a SET_INTERESTS with any interests, spam list and threshold
Env_Configure(interests, spam, thr) ==
    /\ requests < MaxRequests
    /\ requests' = requests + 1
    /\ hostInbox' = Append(hostInbox, [SetInterestsMsg(interests, TRUE) EXCEPT
                                          !.spamKeywords = spam, !.threshold = thr])
    /\ UNCHANGED <<modelReady, loadPromise, attempts, classifier, interestEmbeddings,
                   spamList, threshold, waiters, hostReplies, bgInbox, bgVars, tabVars>>

\* a CLASSIFY for any of the texts
Env_ClassifyText ==
    /\ requests < MaxRequests
    /\ requests' = requests + 1
    /\ \E tw \in Tier1Tweets : hostInbox' = Append(hostInbox, ClassifyMsg(tw.id, tw.text))
    /\ UNCHANGED <<modelReady, loadPromise, attempts, classifier, interestEmbeddings,
                   spamList, threshold, waiters, hostReplies, bgInbox, bgVars, tabVars>>

Tweet4 == [id |-> "tweet-4", text |-> <<"A", "I", " ", "G", "i", "v", "e", "a", "w", "a", "y">>]

Tweet5 == [id |-> "tweet-5", text |-> <<"b", "u", "y", " ", "n", "o", "w", " ", "a", "i">>]

\* texts with a keyword of both spam lists, of neither, of one and of the other
SpamTweets == {Tweet1, Tweet2, Tweet4, Tweet5}

\* a CLASSIFY for a text that either tier may have to judge
Env_ClassifySpam ==
    /\ requests < MaxRequests
    /\ requests' = requests + 1
    /\ \E tw \in SpamTweets : hostInbox' = Append(hostInbox, ClassifyMsg(tw.id, tw.text))
    /\ UNCHANGED <<modelReady, loadPromise, attempts, classifier, interestEmbeddings,
                   spamList, threshold, waiters, hostReplies, bgInbox, bgVars, tabVars>>

(***************************************************************************)
(* Initial states.                                                         *)
(***************************************************************************)
\* the extension after chrome.runtime.onInstalled: the default interests are
\* stored and cached, the status is broadcast, nothing is loaded
Init ==
    /\ modelReady = [c \in Contexts |-> FALSE]
    /\ loadPromise = 0
    /\ attempts = <<>>
    /\ classifier = 0
    /\ interestEmbeddings = <<>>
    /\ spamList = <<>>
    /\ threshold = 35
    /\ waiters = <<>>
    /\ hostInbox = <<>>
    /\ hostReplies = {}
    /\ bgInbox = <<>>
    /\ requests = 0
    /\ isRunning = FALSE
    /\ aiReady = FALSE
    /\ cachedInterests = DefaultInterests
    /\ store = [isRunning |-> FALSE, aiStatus |-> "stopped",
                interests |-> DefaultInterests, curationLog |-> <<>>]
    /\ alarm = FALSE
    /\ retryTimers = 0
    /\ procs = [s \in Slots |-> IdleProc]
    /\ uiStatus = StatusPayload(FALSE, FALSE)
    /\ loadFailures = 0
    /\ clock = 1
    /\ commands = 0
    /\ feedTab \in {[script |-> b, loop |-> FALSE, hidden |-> {}, url |-> HomeUrl,
                      observing |-> FALSE, directive |-> "none"] : b \in BOOLEAN}
    /\ evalInbox = <<>>
    /\ emitted = 0

\* a log of n decisions on Tweet2, logged at the times 1..n
PrefilledLog(n) ==
    [i \in 1..n |->
        [ts |-> i, id |-> Tweet2.id, decision |-> "keep",
         reason |-> fallbackClassification(Tweet2.text, DefaultInterests).reason,
         text |-> Tweet2.text]]

\* a session at work: curation was started, the model was loaded, AI_READY
\* was handled and START reached the feed tab; log is the stored decision log
Session(log, interests, inbox) ==
    /\ modelReady = [c \in Contexts |-> c = "offscreen"]
    /\ loadPromise = 1
    /\ attempts = << [phase |-> "Ready", fetchTry |-> 0, backoff |-> 0,
                      progress |-> <<5, 10, 15, 20, 100>>,
                      pipeline |-> "resolved", timer |-> "armed",
                      notified |-> <<"AI_READY">>] >>
    /\ classifier = 1
    /\ interestEmbeddings = [i \in 1..Len(interests) |->
            [t |-> interests[i], emb |-> Embed(interests[i])]]
    /\ spamList = spamKeywords
    /\ threshold = SIM_THRESHOLD
    /\ waiters = <<>>
    /\ hostInbox = <<>>
    /\ hostReplies = {}
    /\ bgInbox = <<>>
    /\ requests = 0
    /\ isRunning = TRUE
    /\ aiReady = TRUE
    /\ cachedInterests = interests
    /\ store = [isRunning |-> TRUE, aiStatus |-> "ready",
                interests |-> interests, curationLog |-> log]
    /\ alarm = TRUE
    /\ retryTimers = 0
    /\ uiStatus = StatusPayload(TRUE, TRUE)
    /\ loadFailures = 0
    /\ clock = Len(log) + 1
    /\ feedTab = [script |-> TRUE, loop |-> TRUE, hidden |-> {}, url |-> HomeUrl,
                  observing |-> TRUE, directive |-> "START"]
    /\ evalInbox = inbox
    /\ emitted = Len(inbox)

RunningSession(log) == Session(log, DefaultInterests, <<>>)

\* the texts an EVALUATE_TWEET may carry: a tweet with a spam keyword and an
\* interest, one with an interest, engagement bait with a quality indicator,
\* bait with an interest, a quality indicator alone, an abbreviation of an
\* interest, none of these, the empty text, and what is not a string
FallbackTexts ==
    {Tweet1.text, Tweet2.text,
     <<"R", "T", " ", "i", "f", " ", "y", "o", "u", " ", "l", "i", "k", "e", " ", "r", "e", "s", "e", "a", "r", "c", "h">>,
     <<"l", "i", "k", "e", " ", "i", "f", " ", "a", "i", " ", "w", "i", "n", "s">>,
     <<"a", " ", "s", "t", "u", "d", "y", " ", "o", "f", " ", "b", "e", "e", "s">>,
     <<"M", "L", " ", "t", "i", "p", "s">>,
     <<"l", "u", "n", "c", "h", " ", "w", "a", "s", " ", "g", "o", "o", "d">>,
     <<>>, JSNull, JSUndefined, JSNumber}

\* the interest lists the cache may hold: none, one, several, the defaults,
\* the empty interest, and lists with an entry that is not a string
FallbackInterests ==
    {<<>>,
     <<<<"a", "i">>>>,
     <<<<"m", "a", "c", "h", "i", "n", "e", " ", "l", "e", "a", "r", "n", "i", "n", "g">>, <<"m", "u", "s", "i", "c">>>>,
     DefaultInterests,
     <<<<>>>>,
     <<JSNumber, <<"a", "i">>>>,
     <<<<"a", "i">>, JSNull>>}

\* a session at work that is sent one EVALUATE_TWEET
InitFallback ==
    /\ \E text \in FallbackTexts, interests \in FallbackInterests :
            Session(<<>>, interests, <<[id |-> "tweet-1", text |-> text]>>)
    /\ procs = [s \in Slots |-> IdleProc]
    /\ commands = 1

\* a session at work before any command of the popup
InitForward ==
    /\ RunningSession(<<>>)
    /\ procs = [s \in Slots |-> IdleProc]
    /\ commands = 0

\* a session at work that has logged nothing yet
InitSession ==
    /\ RunningSession(<<>>)
    /\ procs = [s \in Slots |-> IdleProc]
    /\ commands = 1

\* a session at work whose log is empty or LogHeadroom entries short of full
InitLog ==
    /\ \E n \in {0, LOG_CAPACITY - LogHeadroom} : RunningSession(PrefilledLog(n))
    /\ procs = [s \in Slots |-> IdleProc]
    /\ commands = 1

\* a session at work over a stored log of any length around the capacity
InitLogStore ==
    /\ \E n \in (LOG_CAPACITY - 1)..(LOG_CAPACITY + LogExcess) :
            RunningSession(PrefilledLog(n))
    /\ procs = [s \in Slots |-> IdleProc]
    /\ commands = 1

(***************************************************************************)
(* Specifications.                                                         *)
(***************************************************************************)
\* an event of the load attempt a
LoadEvent(a) ==
    \/ Fetch_Ok(a)
    \/ \E e \in FetchErrors : Fetch_Fail(a, e)
    \/ Import_Ok(a)
    \/ \E e \in ImportErrors : Import_Fail(a, e)
    \/ Pipeline_Resolve(a)
    \/ \E e \in PipelineErrors : Pipeline_Reject(a, e)
    \/ Timeout_Fire(a)

\* with the events that reach an attempt after it is over: the timer that is
\* never cleared, the construction the timer has overtaken
LoadStep == \E a \in 1..MaxAttempts : LoadEvent(a)

\* the events of the attempts under way; those that come after an attempt is
\* over change nothing but the record of that attempt
LiveLoadStep == \E a \in 1..MaxAttempts : a \in InFlight /\ LoadEvent(a)

HandlerStep ==
    \E s \in Slots :
        \/ \E eligible \in BOOLEAN : Start_TabsQuery(s, eligible)
        \/ \E injectOk \in BOOLEAN : Start_Ping(s, injectOk)
        \/ Start_Stored(s)
        \/ InitializeAI_Preload(s)
        \/ InitializeAI_Return(s)
        \/ \E injectOk \in BOOLEAN : Forward_Deliver(s, injectOk)
        \/ Stop_Stored(s)
        \/ Evaluate_Await(s)
        \/ LogLine_Write(s)
        \/ Evaluate_Activity(s)
        \/ Ready_After(s)
        \/ Failed_After(s)
        \/ Retry_After(s)

\* the whole extension
Next ==
    \/ Bg_StartCuration
    \/ Bg_StopCuration
    \/ Bg_RetryAILoad
    \/ Bg_EvaluateTweet
    \/ Bg_AIReady
    \/ Bg_AILoadFailed
    \/ RetryTimer_Fire
    \/ HandlerStep
    \/ \E tw \in Tweets : ProcessFeed(tw, MaxEvals)
    \/ Offscreen_OnMessage
    \/ LiveLoadStep

Spec == Init /\ [][Next]_vars

\* the inference host and the model manager, addressed by any context
NextLoad ==
    \/ Env_Preload
    \/ Env_Classify
    \/ Env_SetInterests
    \/ Offscreen_OnMessage
    \/ LoadStep

SpecLoad == Init /\ [][NextLoad]_vars

\* the inference host with the handlers of the background that follow the
\* load and the interests; any context may address the host
NextHost ==
    \/ Env_Preload
    \/ Env_SetInterests
    \/ \E new \in InterestLists : Bg_InterestsChanged(new)
    \/ Offscreen_OnMessage
    \/ LiveLoadStep
    \/ Bg_AIReady
    \/ Bg_AILoadFailed
    \/ \E s \in Slots : Ready_After(s) \/ Failed_After(s)

SpecHost == Init /\ [][NextHost]_vars

\* a session at work in which the interests are edited, the load is retried
\* by hand and the host is asked to classify
NextInterests ==
    \/ \E new \in InterestLists : Bg_InterestsChanged(new)
    \/ Bg_RetryAILoad
    \/ \E s \in Slots : Retry_After(s) \/ InitializeAI_Preload(s) \/ InitializeAI_Return(s)
    \/ Env_Classify
    \/ Offscreen_OnMessage

SpecInterests == InitSession /\ [][NextInterests]_vars

\* starts, stops and evaluations of a session at work, whose directives go
\* to the feed tab call by call
NextForward ==
    \/ Bg_StartCuration
    \/ Bg_StopCuration
    \/ Bg_EvaluateTweet
    \/ \E tw \in Tweets : ProcessFeed(tw, MaxEvals)
    \/ \E s \in Slots :
        \/ \E eligible \in BOOLEAN : Start_TabsQuery(s, eligible)
        \/ \E injectOk \in BOOLEAN : Start_Ping(s, injectOk)
        \/ Start_Stored(s)
        \/ Stop_Stored(s)
        \/ Evaluate_Await(s)
        \/ LogLine_Write(s)
        \/ Evaluate_Activity(s)
        \/ \E out \in TargetOutcomes : Forward_Target(s, out)

SpecForward == InitForward /\ [][NextForward]_vars

\* the same session while the page of the feed tab navigates
NextNavigate ==
    \/ NextForward
    \/ \E url \in Urls : Tab_Navigate(url)

SpecNavigate == InitForward /\ [][NextNavigate]_vars

\* the loaded host, configured and asked to classify by any context
NextTier1 ==
    \/ \E interests \in Tier1Interests, spam \in Tier1SpamLists, thr \in Tier1Thresholds :
            Env_Configure(interests, spam, thr)
    \/ Env_ClassifyText
    \/ Offscreen_OnMessage

SpecTier1 == InitSession /\ [][NextTier1]_vars

\* the host as AI_READY configured it, asked to classify texts
NextTiers ==
    \/ Env_ClassifySpam
    \/ Offscreen_OnMessage

SpecTiers == InitSession /\ [][NextTiers]_vars

\* the tier-2 classifier applied by the EVALUATE_TWEET handler to any text
\* under any cached interest list
NextFallback ==
    \/ Bg_EvaluateTweet
    \/ \E s \in Slots :
        \/ Evaluate_Await(s)
        \/ LogLine_Write(s)
        \/ Evaluate_Activity(s)
        \/ \E injectOk \in BOOLEAN : Forward_Deliver(s, injectOk)

SpecFallback == InitFallback /\ [][NextFallback]_vars

\* the decision-logging handlers of a session at work
LogPayloads ==
    {[id |-> Tweet1.id, text |-> Tweet1.text, isUninteresting |-> TRUE,
      reason |-> [kind |-> "Spam", arg |-> <<>>]]}

NextLog ==
    \/ \E tw \in Tweets : ProcessFeed(tw, MaxLogEvals)
    \/ \E payload \in LogPayloads : Bg_ClassificationResult(payload)
    \/ Bg_EvaluateTweet
    \/ \E s \in Slots :
        \/ Evaluate_Await(s)
        \/ LogLine_Write(s)
        \/ Evaluate_Activity(s)
        \/ \E injectOk \in BOOLEAN : Forward_Deliver(s, injectOk)

SpecLog == InitLog /\ [][NextLog]_vars

SpecLogStore == InitLogStore /\ [][NextLog]_vars

\* the decision-logging handlers of a session at work whose storage may fail
NextLogFail ==
    \/ NextLog
    \/ \E s \in Slots : LogLine_GetFail(s) \/ LogLine_SetFail(s)

SpecLogFail == InitSession /\ [][NextLogFail]_vars

\* the whole extension with every type of message the listener may receive
NextRouting ==
    \/ Next
    \/ \E type \in OtherTypes : Bg_Other(type)
    \/ \E payload \in LogPayloads : emitted < MaxEvals - 1 /\ Bg_ClassificationResult(payload)

SpecRouting == Init /\ [][NextRouting]_vars

\* the EVALUATE_TWEET handlers of a session at work, free to interleave
NextEvaluate ==
    \/ \E tw \in Tweets : ProcessFeed(tw, MaxLogEvals)
    \/ Bg_EvaluateTweet
    \/ \E s \in Slots :
        \/ Evaluate_Await(s)
        \/ LogLine_Write(s)
        \/ Evaluate_Activity(s)
        \/ \E injectOk \in BOOLEAN : Forward_Deliver(s, injectOk)

SpecEvaluate == InitSession /\ [][NextEvaluate]_vars

\* chrome.storage.local serves the writes of one context in the order they
\* were made. A START_CURATION and a STOP_CURATION handler that both await
\* their storage.set({ isRunning }) wrote in the order of their assignments
\* to isRunning, so the one whose value isRunning no longer holds wrote first.
StorageServed(s) ==
    IF procs[s].pc = "stored"
    THEN ~(isRunning /\ \E r \in Slots : procs[r].pc = "stop_stored")
    ELSE ~(~isRunning /\ \E r \in Slots : procs[r].pc = "stored")

\* the whole extension, with the storage writes completing in their order
NextOrdered ==
    \/ Bg_StartCuration
    \/ Bg_StopCuration
    \/ Bg_RetryAILoad
    \/ Bg_EvaluateTweet
    \/ Bg_AIReady
    \/ Bg_AILoadFailed
    \/ RetryTimer_Fire
    \/ \E s \in Slots :
        \/ \E eligible \in BOOLEAN : Start_TabsQuery(s, eligible)
        \/ \E injectOk \in BOOLEAN : Start_Ping(s, injectOk)
        \/ StorageServed(s) /\ Start_Stored(s)
        \/ InitializeAI_Preload(s)
        \/ InitializeAI_Return(s)
        \/ \E injectOk \in BOOLEAN : Forward_Deliver(s, injectOk)
        \/ StorageServed(s) /\ Stop_Stored(s)
        \/ Evaluate_Await(s)
        \/ LogLine_Write(s)
        \/ Evaluate_Activity(s)
        \/ Ready_After(s)
        \/ Failed_After(s)
        \/ Retry_After(s)
    \/ \E tw \in Tweets : ProcessFeed(tw, MaxEvals)
    \/ Offscreen_OnMessage
    \/ LiveLoadStep

SpecOrdered == Init /\ [][NextOrdered]_vars

(***************************************************************************)
(* Properties.                                                             *)
(***************************************************************************)
IsPrefix(a, b) == Len(a) <= Len(b) /\ SubSeq(b, 1, Len(a)) = a

\* the offscreen listener takes a message that makes it call ensureModel
AcquireStep ==
    /\ hostInbox # <<>>
    /\ hostInbox' = Tail(hostInbox)
    /\ Head(hostInbox).type \in {"PRELOAD_MODEL", "CLASSIFY"}

\* the background listener takes the message at the head of bgInbox
LoadFailedStep ==
    /\ bgInbox # <<>>
    /\ bgInbox' = Tail(bgInbox)
    /\ Head(bgInbox).type = "AI_LOAD_FAILED"

\* the background listener takes an EVALUATE_TWEET
EvaluateStep == evalInbox # <<>> /\ evalInbox' = Tail(evalInbox)

\* the background listener takes a START_CURATION
StartStep ==
    /\ commands' = commands + 1
    /\ HasFree
    /\ procs'[FreeSlot].type = "START_CURATION"

\* nothing is under way: no handler is suspended, no message is on its way,
\* no load attempt is pending and no retry is scheduled
Quiescent ==
    /\ \A s \in Slots : procs[s].pc = "done"
    /\ hostInbox = <<>> /\ bgInbox = <<>> /\ evalInbox = <<>>
    /\ waiters = <<>>
    /\ InFlight = {}
    /\ retryTimers = 0

\* C1: at most one load attempt is in flight at any time, and every handler
\* that called getMiniLMPipeline while an attempt was pending waits for that
\* one attempt, the memoized one; no second attempt exists beside it.
C1_SingleFlight ==
    /\ Cardinality(InFlight) <= 1
    /\ \A a \in InFlight : loadPromise = a
    /\ \A i \in 1..Len(waiters) :
            waiters[i].attempt = loadPromise /\ waiters[i].attempt \in InFlight

\* a PRELOAD_MODEL and a CLASSIFY wait for the one attempt under way
C1_Witness ==
    /\ Len(attempts) = 1 /\ InFlight = {1}
    /\ \E i, j \in 1..Len(waiters) :
            waiters[i].type = "PRELOAD_MODEL" /\ waiters[j].type = "CLASSIFY"

\* C2: a failing attempt clears the memo, and the next getMiniLMPipeline call
\* starts a fresh attempt at its first phase; once an attempt has succeeded
\* the memo keeps that attempt, every later call is served from it and no
\* attempt is started any more.
C2_MemoReset ==
    [][ /\ \A a \in 1..Len(attempts) :
                (attempts[a].phase # "Failed" /\ attempts'[a].phase = "Failed")
                    => loadPromise' = 0
        /\ (AcquireStep /\ loadPromise = 0 /\ classifier = 0)
                => /\ Len(attempts') = Len(attempts) + 1
                   /\ attempts'[Len(attempts')] = NewAttempt
                   /\ loadPromise' = Len(attempts')
        /\ \A a \in 1..Len(attempts) :
                attempts[a].phase = "Ready"
                    => /\ Len(attempts') = Len(attempts)
                       /\ attempts'[a].phase = "Ready"
                       /\ loadPromise = a /\ loadPromise' = a
                       /\ classifier' \in {classifier, a}
                       /\ AcquireStep => waiters' = waiters /\ classifier' = a
      ]_vars

\* the first attempt failed, the second one was started afresh and succeeded,
\* and a call made after that was served from it
C2_Witness ==
    /\ Len(attempts) = 2
    /\ attempts[1].phase = "Failed" /\ attempts[2].phase = "Ready"
    /\ loadPromise = 2 /\ classifier = 2
    /\ requests = 3 /\ hostInbox = <<>> /\ waiters = <<>>

\* C3: once model acquisition has failed in a running session, the feed
\* observer is activated all the same: when everything has settled, the
\* session running and the failure handled, the observer loop is on.
C3_FailureStartsObserver ==
    (Quiescent /\ isRunning /\ ~aiReady /\ loadFailures > 0) => feedTab.loop

\* C4: handling AI_LOAD_FAILED leaves isRunning as it is and sets aiReady to
\* false, and an EVALUATE_TWEET taken afterwards while running ends with a
\* decision of the fallback classifier, logged and broadcast.
C4_LoadFailedKeepsDeciding ==
    [][ /\ LoadFailedStep
            => /\ isRunning' = isRunning
               /\ aiReady' = FALSE
               /\ cachedInterests' = cachedInterests
               /\ store' = store /\ alarm' = alarm /\ feedTab' = feedTab
        /\ (EvaluateStep /\ isRunning /\ loadFailures > 0)
            => LET p == procs'[FreeSlot] IN
               /\ p.type = "EVALUATE_TWEET" /\ p.pc = "log_get"
               /\ p.result = fallbackClassification(Head(evalInbox).text, cachedInterests)
        /\ \A s \in Slots :
            LET p == procs'[s] IN
            (p.type = "EVALUATE_TWEET" /\ p.running0 /\ p.failed0)
                => /\ p.tier = 2
                   /\ p.pc = "done"
                        => /\ Len(p.ops) >= 2
                           /\ p.ops[1].op = "logLine"
                           /\ p.ops[2].op = "ACTIVITY_LOG"
        /\ \A s \in Slots :
            (/\ procs[s].type = "EVALUATE_TWEET" /\ procs[s].failed0
             /\ procs[s].pc = "log_got" /\ procs'[s].pc = "log_set")
                => /\ store'.curationLog # <<>>
                   /\ store'.curationLog[Len(store'.curationLog)].id = procs[s].id
      ]_vars

\* a load failure was handled in a running session, and an EVALUATE_TWEET
\* taken after it has been decided by the fallback classifier
C4_Witness ==
    \E s \in Slots :
        /\ procs[s].type = "EVALUATE_TWEET" /\ procs[s].pc = "done"
        /\ procs[s].running0 /\ procs[s].failed0
        /\ procs[s].tier = 2
        /\ isRunning

\* C5: an EVALUATE_TWEET taken while running is classified by tier 1, through
\* CLASSIFY, when the provider is ready (the load succeeded and AI_READY was
\* handled), and by the fallback when it is not.
C5_TierSelection ==
    \A s \in Slots :
        (procs[s].type = "EVALUATE_TWEET" /\ procs[s].running0)
            => IF procs[s].ready0
               THEN procs[s].tier # 2 /\ procs[s].ops[1].op = "CLASSIFY"
               ELSE procs[s].tier = 2

\* C6: an EVALUATE_TWEET taken while isRunning is false does nothing: no
\* CLASSIFY is sent, the log and the session state stay as they are, nothing
\* is broadcast or forwarded, and the handler only answers.
C6_EvaluateWhenStopped ==
    [][ (EvaluateStep /\ ~isRunning)
            => /\ UNCHANGED <<hostVars, isRunning, aiReady, cachedInterests, store,
                              alarm, retryTimers, uiStatus, loadFailures, feedTab>>
               /\ procs'[FreeSlot].type = "EVALUATE_TWEET"
               /\ procs'[FreeSlot].pc = "done"
               /\ procs'[FreeSlot].ops = <<Respond(TRUE)>>
      ]_vars

\* an EVALUATE_TWEET sent by the observer was taken after curation had stopped
C6_Witness ==
    \E s \in Slots :
        /\ procs[s].type = "EVALUATE_TWEET" /\ ~procs[s].running0
        /\ procs[s].pc = "done"
        /\ ~isRunning /\ emitted > 0

\* what the handler of an evaluation with result r does, in order
ExpectedOps(r) ==
    IF r.isUninteresting
    THEN <<Op("logLine", "hide"), Op("ACTIVITY_LOG", "hidden"),
           Op("forward", "MARK_TWEET"), Respond(TRUE)>>
    ELSE <<Op("logLine", "keep"), Op("ACTIVITY_LOG", "kept"), Respond(TRUE)>>

\* C7: the handler of an EVALUATE_TWEET taken while running appends one log
\* entry whose decision is hide exactly when isUninteresting, then broadcasts
\* ACTIVITY_LOG with the matching decision, then forwards MARK_TWEET for the
\* tweet if and only if isUninteresting.
C7_EvaluateOrder ==
    [][ \A s \in Slots :
            LET p == procs'[s] IN
            (p.type = "EVALUATE_TWEET" /\ p.running0)
                => /\ IsPrefix(p.ops, ExpectedOps(p.result))
                   /\ p.pc = "done" => p.ops = ExpectedOps(p.result)
                   /\ (procs[s].pc = "log_got" /\ p.pc = "log_set")
                        => LET log == store'.curationLog
                               e == log[Len(log)]
                           IN  /\ log = Shift(Append(procs[s].local, e))
                               /\ e.id = p.id
                               /\ e.decision = IF p.result.isUninteresting
                                               THEN "hide" ELSE "keep"
                   /\ (procs[s].pc = "forward" /\ p.pc = "done")
                        => /\ p.result.isUninteresting
                           /\ feedTab'.hidden = feedTab.hidden \cup {p.id}
      ]_vars

\* one evaluation has ended in hide with MARK_TWEET delivered, the other in keep
C7_Witness ==
    /\ Tweet1.id \in feedTab.hidden
    /\ Tweet2.id \notin feedTab.hidden
    /\ \E s \in Slots :
        /\ procs[s].type = "EVALUATE_TWEET" /\ procs[s].pc = "done"
        /\ procs[s].id = Tweet2.id
        /\ procs[s].ops = ExpectedOps([isUninteresting |-> FALSE])
    /\ \E i, j \in 1..Len(store.curationLog) :
        /\ store.curationLog[i].id = Tweet1.id /\ store.curationLog[i].decision = "hide"
        /\ store.curationLog[j].id = Tweet2.id /\ store.curationLog[j].decision = "keep"

\* C8: the stored decision log never holds more than 2000 entries.
C8_LogBounded == Len(store.curationLog) <= LOG_CAPACITY

\* the log is full and its oldest entry has been evicted
C8_Witness ==
    /\ Len(store.curationLog) = LOG_CAPACITY
    /\ store.curationLog[1].ts > 1

C10_StartWhenRunning ==
    [][ (StartStep /\ isRunning)
            => /\ UNCHANGED <<hostVars, tabVars, isRunning, aiReady, cachedInterests,
                              store, alarm, retryTimers, uiStatus, loadFailures>>
               /\ procs'[FreeSlot].pc = "done"
               /\ procs'[FreeSlot].ops = <<Respond(TRUE)>>
      ]_vars

\* a START_CURATION was taken in a running session
C10_Witness ==
    \E s \in Slots :
        /\ procs[s].type = "START_CURATION" /\ procs[s].running0
        /\ procs[s].pc = "done"
        /\ isRunning /\ alarm

\* the invocation p has performed the operation (name, arg)
HasOp(p, name, arg) == \E i \in 1..Len(p.ops) : p.ops[i] = Op(name, arg)

\* the background listener takes a command of the given type
CommandStep(type) ==
    /\ commands' = commands + 1
    /\ HasFree
    /\ procs'[FreeSlot].type = type

\* C11: a START_CURATION that finds the active tab on no eligible address
\* answers its caller with a declined result, and changes nothing: isRunning,
\* the store, the keep-alive alarm and the inbox of the host stay as they were.
C11_IneligibleDeclined ==
    [][\A s \in Slots :
          (/\ procs[s].type = "START_CURATION"
           /\ procs[s].pc = "tabs_query"
           /\ procs'[s].pc = "done")
          => /\ procs'[s].ops = <<Respond(FALSE)>>
             /\ UNCHANGED <<isRunning, store, alarm, hostInbox, feedTab>>]_vars

C14_DeferredRetry ==
    [][/\ \A s \in Slots :
             /\ (/\ procs[s].type = "AI_LOAD_FAILED"
                 /\ procs[s].pc = "failed_fwd"
                 /\ procs'[s].pc = "done")
                => retryTimers' = retryTimers +
                      (IF /\ procs[s].payload \cap
                               {"Network", "fetch", "timeout", "connectivity"} # {}
                          /\ isRunning
                       THEN 1 ELSE 0)
             /\ (/\ procs[s].type = "RETRY_TIMER"
                 /\ procs[s].pc = "initAI"
                 /\ procs'[s].pc # "initAI")
                => hostInbox' = Append(hostInbox, PreloadMsg)
       /\ retryTimers' > retryTimers
          => \E s \in Slots : /\ procs[s].type = "AI_LOAD_FAILED"
                              /\ procs[s].pc = "failed_fwd"
                              /\ procs'[s].pc = "done"
       /\ retryTimers' < retryTimers
          => /\ retryTimers' = retryTimers - 1
             /\ IF isRunning /\ ~aiReady
                THEN /\ procs'[FreeSlot].type = "RETRY_TIMER"
                     /\ procs'[FreeSlot].pc = "initAI"
                ELSE UNCHANGED <<procs, hostInbox>>]_vars

\* a scheduled retry has fired and has asked the host for the model again
C14_Witness ==
    \E s \in Slots :
        /\ procs[s].type = "RETRY_TIMER"
        /\ HasOp(procs[s], "PRELOAD_MODEL", "")
        /\ loadFailures > 0 /\ retryTimers = 0

\* C15: a RETRY_AI_LOAD, taken with curation running or not, sets aiReady to
\* false and goes on to a new model acquisition.
C15_RetryAnyTime ==
    [][CommandStep("RETRY_AI_LOAD")
          => /\ ~aiReady'
             /\ procs'[FreeSlot].pc = "retry_bcast"]_vars

\* the cache recalcEmbeddings builds from a list: one entry per interest, in order
CacheOf(interests) ==
    [i \in 1..Len(interests) |-> [t |-> interests[i], emb |-> Embed(interests[i])]]

\* the offscreen listener takes a SET_INTERESTS
SetInterestsStep ==
    /\ hostInbox # <<>>
    /\ hostInbox' = Tail(hostInbox)
    /\ Head(hostInbox).type = "SET_INTERESTS"

\* C16: a SET_INTERESTS the host takes while the classifier is not loaded
\* leaves the cache of embeddings as it is. The load that succeeds sets the
\* classifier and sends AI_READY; the background handles AI_READY by sending
\* SET_INTERESTS with its current interest list, aiReady implies a loaded
\* classifier, and a SET_INTERESTS taken with the classifier loaded sets the
\* cache to one embedding per interest of the message, in order. So once
\* AI_READY is handled and every message is delivered the cache holds one
\* embedding per interest of the list last sent: the current list of the
\* background, unless another context sent its own list afterwards.
C16_DeferredInterests ==
    [][/\ SetInterestsStep
          => interestEmbeddings' =
                IF classifier = 0 THEN interestEmbeddings
                ELSE CacheOf(Head(hostInbox).interests)
       /\ (classifier = 0 /\ classifier' # 0)
          => bgInbox' # <<>> /\ bgInbox'[Len(bgInbox')].type = "AI_READY"
       /\ (~aiReady /\ aiReady')
          => /\ classifier # 0
             /\ hostInbox' = Append(hostInbox, SetInterestsMsg(cachedInterests, TRUE))
       /\ (aiReady' /\ hostInbox' = <<>> /\ bgInbox' = <<>>)
          => interestEmbeddings' \in {CacheOf(cachedInterests'), CacheOf(HostInterests)}]_vars

\* a load is under way and a SET_INTERESTS has been taken meanwhile: its spam
\* list is in place, the cache of embeddings is still empty
C16_Witness ==
    /\ classifier = 0 /\ InFlight # {}
    /\ hostInbox = <<>>
    /\ spamList = spamKeywords
    /\ interestEmbeddings = <<>>

\* C17: whenever the classifier is loaded, no handler of the background is
\* suspended and no message is on its way (so no interest update is in
\* flight), the cache of embeddings is the one built from the stored interest
\* list, entry by entry, so no CLASSIFY is answered from an older list.
C17_CacheFollowsInterests ==
    (/\ classifier # 0
     /\ hostInbox = <<>> /\ bgInbox = <<>>
     /\ \A s \in Slots : procs[s].pc = "done")
    => interestEmbeddings = CacheOf(store.interests)

\* the values that are not strings
NonStrings == {JSNull, JSUndefined, JSNumber}

\* text and every entry of interests are strings
AllStrings(text, interests) ==
    /\ text \notin NonStrings
    /\ \A i \in 1..Len(interests) : interests[i] \notin NonStrings

\* the rule that decides in the reference: the six rules in their strict
\* order, the first that applies wins
RefRule(text, interests) ==
    LET lowerText == ToLowerCase(text)
        lower(i) == ToLowerCase(interests[i])
    IN  IF \E k \in 1..Len(FallbackSpamKeywords) : Includes(lowerText, FallbackSpamKeywords[k])
        THEN 1
        ELSE IF \E i \in 1..Len(interests) : Includes(lowerText, lower(i))
        THEN 2
        ELSE IF \E b \in 1..Len(BaitPrefixes) : StartsWith(lowerText, BaitPrefixes[b])
        THEN 3
        ELSE IF \E q \in 1..Len(qualityIndicators) : Includes(lowerText, qualityIndicators[q])
        THEN 4
        ELSE IF \E i \in 1..Len(interests) :
                    2 * MatchCount(lowerText, lower(i)) > Len(Split(lower(i)))
        THEN 5
        ELSE 6

\* the rule a result names in its reason, 0 when it names none of the six
RuleOf(result) ==
    LET kind == result.reason.kind IN
    IF kind = "Spam keyword: " THEN 1
    ELSE IF kind = "Direct match: " THEN 2
    ELSE IF kind = "Engagement bait pattern" THEN 3
    ELSE IF kind = "Quality content: " THEN 4
    ELSE IF kind = "Semantic match: " THEN 5
    ELSE IF kind = "No matching interests (using fallback classification)" THEN 6
    ELSE 0

\* the EVALUATE_TWEET at the head of the inbox, as the handler will take it
Pending_Evaluation == evalInbox # <<>> /\ isRunning /\ ~isModelReady("background")

C19_NeverThrows ==
    Pending_Evaluation
    => LET r == fallbackClassification(Head(evalInbox).text, cachedInterests) IN
       /\ r # Thrown
       /\ r.isUninteresting \in BOOLEAN
       /\ RuleOf(r) # 0 \/ r.reason.kind \in {"Invalid text input", "classification error"}

\* C20: a text that is null, undefined or not a string is answered with hide,
\* 'Invalid text input', whatever the interests are; the empty text is not:
\* it is decided by the six rules.
C20_InvalidText ==
    /\ Pending_Evaluation
       => LET text == Head(evalInbox).text
              r == fallbackClassification(text, cachedInterests)
          IN  /\ text \in NonStrings
                 => r = [isUninteresting |-> TRUE,
                         reason |-> [kind |-> "Invalid text input", arg |-> <<>>]]
              /\ text = <<>>
                 => /\ r.reason.kind # "Invalid text input"
                    /\ AllStrings(text, cachedInterests)
                       => RuleOf(r) = RefRule(text, cachedInterests)
    /\ \A s \in Slots :
          (procs[s].type = "EVALUATE_TWEET" /\ procs[s].tier = 2)
          => (procs[s].text \in NonStrings
                <=> procs[s].result.reason.kind = "Invalid text input")

\* the handler answered a null text as invalid under an interest list whose
\* first entry is not a string
C20_Witness ==
    \E s \in Slots :
        /\ procs[s].type = "EVALUATE_TWEET" /\ procs[s].tier = 2
        /\ procs[s].text = JSNull
        /\ cachedInterests # <<>> /\ cachedInterests[1] = JSNumber
        /\ procs[s].result.isUninteresting
        /\ procs[s].result.reason.kind = "Invalid text input"

\* x >= num / den for a similarity x and num > 0, den > 0 (false for NaN)
SimGE(x, num, den) ==
    /\ x.nn # 0
    /\ x.dot >= 0
    /\ x.dot * x.dot * den * den >= num * num * x.nn

\* some cached interest embedding is at least as similar to text as the threshold
SomeSimilar(text) ==
    \E i \in 1..Len(interestEmbeddings) :
        SimGE(cosine(Embed(text), interestEmbeddings[i].emb), threshold, 100)

\* text includes a keyword of the host's spam list
HasSpam(text) ==
    \E k \in 1..Len(spamList) : Includes(ToLowerCase(text), spamList[k])

\* the loaded host takes a CLASSIFY
ClassifyStep ==
    /\ hostInbox # <<>>
    /\ hostInbox' = Tail(hostInbox)
    /\ Head(hostInbox).type = "CLASSIFY"
    /\ classifier # 0

\* the host answers the CLASSIFY it takes, and result describes the answer
ClassifyAnswer(result(_)) ==
    \E r \in hostReplies' :
        /\ hostReplies' = hostReplies \cup {r}
        /\ r.type = "CLASSIFY" /\ r.id = Head(hostInbox).id /\ r.ok
        /\ result(r.result)

\* the answer hides exactly when no cached embedding reaches the threshold
HidesBelowThreshold(res) ==
    /\ res.isUninteresting = ~SomeSimilar(Head(hostInbox).text)
    /\ res.reason.kind = "sim="

\* the answer keeps for want of interests
KeepsNoInterests(res) ==
    res = [isUninteresting |-> FALSE, reason |-> [kind |-> "No interests", arg |-> <<>>]]

\* the answer hides as spam
HidesSpam(res) ==
    res = [isUninteresting |-> TRUE, reason |-> [kind |-> "Spam", arg |-> <<>>]]

FailStep(a) ==
    /\ a \in 1..Len(attempts)
    /\ attempts[a].phase # "Failed"
    /\ attempts'[a].phase = "Failed"

\* the message the host has just sent to the background
Sent == bgInbox'[Len(bgInbox')]

\* the categories a payload of AI_LOAD_FAILED names
Categories(payload) == payload \cap {"Network error:", "Download timeout:", "Server error:"}

\* C23: every failure of a load attempt sends one AI_LOAD_FAILED that names at
\* most one category and clears the memo; the category is the one of the
\* cause: Network error for a rejected fetch, Download timeout for the 120 s
\* deadline, and Server error, with the HTTP status, for a response that is
\* not 2xx, whether the probe or the download of the model received it.
C23_ErrorCategory ==
    [][\A a \in 1..MaxAttempts :
          FailStep(a)
          => /\ loadPromise' = 0
             /\ bgInbox' = Append(bgInbox, Sent) /\ Sent.type = "AI_LOAD_FAILED"
             /\ Cardinality(Categories(Sent.payload)) <= 1
             /\ Timeout_Fire(a) => Categories(Sent.payload) = {"Download timeout:"}
             /\ \A e \in FetchErrors \cup PipelineErrors :
                   (Fetch_Fail(a, e) \/ Pipeline_Reject(a, e))
                   => IF "HTTP" \in e
                      THEN Categories(Sent.payload) = {"Server error:"}
                           /\ "HTTP" \in Sent.payload
                      ELSE "fetch" \in e
                           => Categories(Sent.payload) = {"Network error:"}]_vars

\* the calls to chrome.tabs and chrome.scripting among the operations ops
TabCalls(ops) ==
    SelectSeq(ops, LAMBDA o : o.op \in {"PING", "tabs.sendMessage", "executeScript"})

\* the number of the calls named op in calls
CountOf(calls, op) == Cardinality({i \in 1..Len(calls) : calls[i].op = op})

\* C24: in every call of forwardToContentScript, for the target tab, the
\* directive is sent only right after a PING that was answered or right after
\* an injection that succeeded; the script is injected at most once, and only
\* after a call found no receiver; the directive is sent at most twice; and
\* whatever fails, the call returns and its handler runs to its end.
C24_BoundedDelivery ==
    [][\A s \in Slots :
          (procs[s].pc = "forward" /\ procs'[s].pc # "forward")
          => LET calls == TabCalls(SubSeq(procs'[s].ops, Len(procs[s].ops) + 1,
                                          Len(procs'[s].ops)))
             IN  /\ CountOf(calls, "executeScript") <= 1
                 /\ CountOf(calls, "tabs.sendMessage") <= 2
                 /\ \A i \in 1..Len(calls) :
                       /\ calls[i].op = "tabs.sendMessage"
                          => i > 1 /\ calls[i - 1] \in {Op("PING", "ok"),
                                                        Op("executeScript", "ok")}
                       /\ calls[i].op = "executeScript"
                          => i > 1 /\ calls[i - 1].arg = "noReceiver"
                 /\ procs'[s].pc = "done"
                 /\ procs[s].type \in {"START_CURATION", "STOP_CURATION", "EVALUATE_TWEET"}
                    => procs'[s].ops[Len(procs'[s].ops)] = Respond(TRUE)]_vars

\* a directive found no receiver after an answered PING, the script was
\* injected and the directive, sent once more, arrived
C24_Witness ==
    \E s \in Slots :
        /\ procs[s].pc = "done"
        /\ TabCalls(procs[s].ops) =
              <<Op("PING", "ok"), Op("tabs.sendMessage", "noReceiver"),
                Op("executeScript", "ok"), Op("tabs.sendMessage", "ok")>>

\* C25: a storage read or write that fails in logLine leaves the stored log
\* as it was and stops nothing: the EVALUATE_TWEET handler goes on, and when
\* it ends it has broadcast ACTIVITY_LOG, has forwarded MARK_TWEET if the
\* tweet is uninteresting (and only then), and has answered success.
C25_LogFailureHarmless ==
    [][\A s \in Slots :
          /\ (/\ procs[s].pc \in {"log_get", "log_got"}
              /\ procs'[s].ops = Append(procs[s].ops, Op("logLine", "get failed"))
                 \/ procs'[s].ops = Append(procs[s].ops, Op("logLine", "set failed")))
             => /\ store' = store
                /\ procs'[s].pc = "log_set"
          /\ (/\ procs'[s].type = "EVALUATE_TWEET"
              /\ procs'[s].running0
              /\ procs[s].pc # "done"
              /\ procs'[s].pc = "done")
             => /\ HasOp(procs'[s], "ACTIVITY_LOG", ActivityDecision(procs'[s].result))
                /\ HasOp(procs'[s], "forward", "MARK_TWEET")
                      = procs'[s].result.isUninteresting
                /\ procs'[s].ops[Len(procs'[s].ops)] = Respond(TRUE)]_vars

\* the write of the log failed, nothing was stored, and the handler has
\* forwarded MARK_TWEET and answered
C25_Witness ==
    \E s \in Slots :
        /\ procs[s].type = "EVALUATE_TWEET" /\ procs[s].pc = "done"
        /\ HasOp(procs[s], "logLine", "set failed")
        /\ HasOp(procs[s], "ACTIVITY_LOG", "hidden")
        /\ HasOp(procs[s], "forward", "MARK_TWEET")
        /\ procs[s].ops[Len(procs[s].ops)] = Respond(TRUE)
        /\ store.curationLog = <<>>



\* the STATUS_UPDATE broadcasts a handler has made
StatusOps(p) == SelectSeq(p.ops, LAMBDA o : o.op = "STATUS_UPDATE")

\* the invocation in slot s broadcasts STATUS_UPDATE in this step
BroadcastStep(s) ==
    /\ procs'[s] # procs[s]
    /\ Len(StatusOps(procs'[s])) >
            (IF procs[s].pc = "done" THEN 0 ELSE Len(StatusOps(procs[s])))

\* the payload a STATUS_UPDATE is to carry for the given flags
ExpectedStatus(run, ready) ==
    [isRunning |-> run, aiReady |-> ready,
     aiStatus |-> IF ready THEN "ready" ELSE IF run THEN "loading" ELSE "stopped"]

PhaseRank(ph) ==
    CASE ph = "Idle" -> 0
      [] ph = "TestingNetwork" -> 1
      [] ph = "ImportingProvider" -> 2
      [] ph = "Downloading" -> 3
      [] ph = "Ready" -> 4
      [] ph = "Failed" -> 5

NonDecreasing(q) == \A i \in 1..(Len(q) - 1) : q[i] <= q[i + 1]

\* C27: within one load attempt the phase moves only forward, one phase at a
\* time, along TestingNetwork -> ImportingProvider -> Downloading -> Ready, or
\* to Failed from a phase that is not terminal; Ready and Failed are never
\* left; the progress reported is a prefix of 5, 10, 15, 20, 100 that only
\* grows; an attempt in a terminal phase has sent exactly one notification,
\* AI_READY if Ready and AI_LOAD_FAILED if Failed, an attempt under way none;
\* and an attempt that starts, starts at the first phase with progress 5, 10.
C27_MonotonePhases ==
    [][ /\ \A a \in 1..Len(attempts) :
            LET old == attempts[a]
                new == attempts'[a]
            IN  /\ Len(attempts') >= Len(attempts)
                /\ new.phase # old.phase
                     => /\ old.phase \in {"TestingNetwork", "ImportingProvider", "Downloading"}
                        /\ \/ new.phase = "Failed"
                           \/ PhaseRank(new.phase) = PhaseRank(old.phase) + 1
                /\ IsPrefix(old.progress, new.progress)
                /\ IsPrefix(new.progress, <<5, 10, 15, 20, 100>>)
                /\ NonDecreasing(new.progress)
                /\ IsPrefix(old.notified, new.notified)
                /\ new.notified = CASE new.phase = "Ready" -> <<"AI_READY">>
                                    [] new.phase = "Failed" -> <<"AI_LOAD_FAILED">>
                                    [] OTHER -> <<>>
                /\ (new.phase = "Ready") = (new.progress = <<5, 10, 15, 20, 100>>)
        /\ \A a \in (Len(attempts) + 1)..Len(attempts') :
                /\ attempts'[a].phase = "TestingNetwork"
                /\ attempts'[a].progress = <<5, 10>>
                /\ attempts'[a].notified = <<>>
      ]_vars

\* a first attempt failed while downloading, a second one went through every
\* phase to Ready, and the timer of the second has fired since
C27_Witness ==
    /\ Len(attempts) = 2
    /\ attempts[1].phase = "Failed" /\ attempts[1].progress = <<5, 10, 15, 20>>
    /\ attempts[2].phase = "Ready" /\ attempts[2].timer = "fired"


\* C28: retryFetch makes at most 3 attempts: its attempt counter stays within
\* 1..3 while the probe is under way; a 2xx answer ends it at once, and no
\* fetch is made for that load attempt afterwards; after the failed attempt
\* k < 3 it waits 2^(k-1) seconds (1 s, then 2 s) and makes attempt k + 1;
\* the failure of attempt 3 is not retried: the load attempt fails and its
\* AI_LOAD_FAILED reports a network error.
C28_BoundedRetry ==
    [][ \A a \in 1..Len(attempts) :
          LET old == attempts[a]
              new == attempts'[a]
              failed == \E e \in FetchErrors : Fetch_Fail(a, e)
          IN  /\ new.phase = "TestingNetwork" => new.fetchTry \in 1..3
              /\ old.phase # "TestingNetwork"
                    => new.fetchTry = old.fetchTry /\ new.backoff = old.backoff
              /\ Fetch_Ok(a) => new.phase = "ImportingProvider" /\ new.fetchTry = 0
              /\ (failed /\ old.fetchTry = 1)
                    => new.phase = "TestingNetwork" /\ new.fetchTry = 2 /\ new.backoff = 1000
              /\ (failed /\ old.fetchTry = 2)
                    => new.phase = "TestingNetwork" /\ new.fetchTry = 3 /\ new.backoff = 2000
              /\ (failed /\ old.fetchTry = 3)
                    => /\ new.phase = "Failed" /\ new.fetchTry = 3
                       /\ Len(bgInbox') = Len(bgInbox) + 1
                       /\ Sent.type = "AI_LOAD_FAILED"
                       /\ "Network error:" \in Sent.payload
      ]_vars

\* one load attempt failed on the third failure of its probe; the probe of
\* the next has failed twice and makes its third attempt after the 2 s wait
C28_Witness ==
    /\ Len(attempts) = 2
    /\ attempts[1].phase = "Failed" /\ attempts[1].fetchTry = 3
    /\ attempts[1].progress = <<5, 10>>
    /\ attempts[2].phase = "TestingNetwork" /\ attempts[2].fetchTry = 3
    /\ attempts[2].backoff = 2000


\* the step leaves the model manager and the host as they are, but for the
\* record of what has reached the attempts
NoEffect ==
    UNCHANGED <<modelReady, loadPromise, classifier, interestEmbeddings, spamList,
                threshold, waiters, hostInbox, hostReplies, bgInbox>>

\* C29: the construction of the provider is raced against the overall timer
\* and the first to settle wins. When the timer fires on an attempt that is
\* still downloading, the attempt fails, AI_LOAD_FAILED reports a download
\* timeout and the memo is cleared; when the construction then completes, the
\* attempt stays failed, the model is not marked ready and nothing is sent.
\* When the construction completes first, the attempt is ready and AI_READY is
\* sent; when the timer then fires, nothing changes.
C29_TimeoutRace ==
    [][ \A a \in 1..Len(attempts) :
          LET old == attempts[a]
              new == attempts'[a]
          IN  /\ (Timeout_Fire(a) /\ old.phase = "Downloading")
                    => /\ new.phase = "Failed"
                       /\ Len(bgInbox') = Len(bgInbox) + 1
                       /\ Sent.type = "AI_LOAD_FAILED"
                       /\ "Download timeout:" \in Sent.payload
                       /\ loadPromise' = 0
                       /\ modelReady' = modelReady
              /\ (Pipeline_Resolve(a) /\ old.timer = "fired" /\ old.phase = "Failed")
                    => /\ new.phase = "Failed" /\ new.notified = <<"AI_LOAD_FAILED">>
                       /\ NoEffect
              /\ (Pipeline_Resolve(a) /\ old.phase = "Downloading")
                    => /\ old.timer = "armed"
                       /\ new.phase = "Ready"
                       /\ modelReady'["offscreen"]
                       /\ Len(bgInbox') = Len(bgInbox) + 1
                       /\ Sent.type = "AI_READY"
              /\ (Timeout_Fire(a) /\ old.phase = "Ready")
                    => /\ new.phase = "Ready" /\ new.notified = <<"AI_READY">>
                       /\ NoEffect
      ]_vars

\* the timer won the race of the first attempt and the construction has
\* completed since: the attempt is failed and the model is not ready
C29_Witness ==
    /\ attempts # <<>>
    /\ attempts[1].phase = "Failed"
    /\ attempts[1].timer = "fired" /\ attempts[1].pipeline = "resolved"
    /\ ~modelReady["offscreen"]
    /\ loadPromise = 0


\* the responses an invocation of the listener has given
Responses(p) == SelectSeq(p.ops, LAMBDA o : o.op = "sendResponse")

\* the suspended invocation in slot s can go on
Resumable(s) ==
    ENABLED (\/ \E eligible \in BOOLEAN : Start_TabsQuery(s, eligible)
             \/ \E injectOk \in BOOLEAN : Start_Ping(s, injectOk)
             \/ Start_Stored(s)
             \/ InitializeAI_Preload(s)
             \/ InitializeAI_Return(s)
             \/ \E injectOk \in BOOLEAN : Forward_Deliver(s, injectOk)
             \/ Stop_Stored(s)
             \/ Evaluate_Await(s)
             \/ LogLine_Write(s)
             \/ Evaluate_Activity(s)
             \/ Ready_After(s)
             \/ Failed_After(s)
             \/ Retry_After(s))

C31_NoLostEntry ==
    (/\ \A s \in Slots : procs[s].pc = "done"
     /\ evalInbox = <<>>)
        => Len(store.curationLog) = emitted


\* C32: after a RETRY_AI_LOAD handled while running, a provider that is
\* loaded in the inference host makes aiReady true again: once nothing is
\* under way any more (no handler, no message, no attempt, no timer), curation
\* still runs and the host holds the provider, aiReady is true.
C32_RetryRestoresReady ==
    (/\ Quiescent
     /\ isRunning
     /\ classifier # 0
     /\ \E s \in Slots : procs[s].type = "RETRY_AI_LOAD" /\ procs[s].running0)
        => aiReady


\* the handler in slot s dispatches MARK_TWEET in this step
MarkStep(s) ==
    /\ procs[s].pc = "log_set"
    /\ procs'[s].pc = "forward" /\ procs'[s].msg = "MARK_TWEET"

\* curation is stopped and no STOP_CURATION is still being handled
StopCompleted ==
    /\ ~isRunning
    /\ \A r \in Slots : procs[r].type = "STOP_CURATION" => procs[r].pc = "done"

\* C33: no MARK_TWEET is dispatched once STOP_CURATION has completed, also
\* not by the handler of an EVALUATE_TWEET that was taken while curation was
\* running and was suspended across the stop.
C33_NoMarkAfterStop ==
    [][ \A s \in Slots : MarkStep(s) => ~StopCompleted ]_vars


\* C34: once the handlers of START_CURATION, STOP_CURATION and AI_READY are
\* over, however they interleaved, a stopped curation has no active observer:
\* if isRunning is false, the last directive the feed tab received was not
\* START, so its processing loop is off.
C34_StoppedObserver ==
    (/\ \A s \in Slots : procs[s].pc = "done"
     /\ ~isRunning)
        => ~feedTab.loop


ActivateStep(s) ==
    /\ procs[s].type = "START_CURATION"
    /\ procs[s].pc = "ping" /\ procs'[s].pc = "stored"

\* C36: START_CURATION messages handled concurrently from the stopped state
\* activate curation once: a handler activates only a curation that is not
\* running, so the second of two concurrent handlers does nothing, as it does
\* when it is handled after the first has completed.
C36_SingleActivation ==
    [][ \A s \in Slots : ActivateStep(s) => ~isRunning ]_vars


\* the load attempt that the waiting handler w awaits settles in this step,
\* and the handler resumes
Resumed(w) ==
    /\ Pending(w.attempt)
    /\ attempts'[w.attempt].phase \in {"Ready", "Failed"}

\* C37: every CLASSIFY request gets a response that carries its id: the
\* handler of a CLASSIFY that waited for a load attempt responds when the
\* attempt settles, whether it succeeds or fails.
C37_ClassifyAnswered ==
    [][ \A i \in 1..Len(waiters) :
            (waiters[i].type = "CLASSIFY" /\ Resumed(waiters[i]))
                => \E r \in hostReplies' : r.type = "CLASSIFY" /\ r.id = waiters[i].id
      ]_vars


\* C38: the SET_INTERESTS that the storage listener sends on a change of the
\* interest list leaves the host's spam list and threshold as they were
\* configured at AI_READY; only the interest embeddings change.
C38_ConfigKept ==
    [][ (SetInterestsStep /\ ~Head(hostInbox).hasConfig)
            => /\ spamList' = spamList
               /\ threshold' = threshold
               /\ UNCHANGED <<classifier, loadPromise, attempts, waiters, hostReplies>>
      ]_vars

\* C39: after the feed observer has processed a STOP directive its loop stays
\* inactive and it emits no EVALUATE_TWEET until it processes the next START
\* directive, whatever navigations of the page happen in between.
C39_StoppedUntilStart ==
    /\ [](feedTab.directive = "STOP" => ~feedTab.loop)
    /\ [][emitted' > emitted => feedTab.directive # "STOP"]_vars

\* the fallback classifier hides the text for a spam keyword
FallbackHidesSpam(text) ==
    LET res == fallbackClassification(text, cachedInterests) IN
    res.isUninteresting /\ res.reason.kind = "Spam keyword: "

\* C40: with the spam list sent at AI_READY the tier-1 classifier hides a text
\* as spam if and only if the tier-2 fallback hides the same text as spam.
C40_SameSpamVerdict ==
    [][(ClassifyStep /\ spamList = spamKeywords)
          => (ClassifyAnswer(HidesSpam) <=> FallbackHidesSpam(Head(hostInbox).text))]_vars

====
